---- MODULE Spec2Model ----
(***************************************************************************)
(* Model of the Qdrant chatbot: the search compatibility shim              *)
(* (http_search_collection), the scroll pagination generator               *)
(* (scroll_query_with_filter), the month aggregators (aggregate_sales,     *)
(* aggregate_volume), the intent router of the chat handler, the           *)
(* ingestion normalizer (normalize_metadata) and the payload repair script *)
(* (parse_and_normalize, fix_payloads_main, upsert_points).                *)
(*                                                                         *)
(* Each component has its own specification (SpecSearch, SpecScroll,       *)
(* SpecAgg, SpecChat, SpecNorm, SpecRetrieve, SpecRange, SpecConc,         *)
(* SpecIdem, SpecFix, SpecUpsert) over the same variables; the variables   *)
(* of the components a specification does not run stay at their initial    *)
(* value.  SpecHandler runs the chat handler with the components it calls. *)
(***************************************************************************)
EXTENDS Integers, Sequences, FiniteSets, TLC

VARIABLES
    sPc,        \* http_search_collection: "idle", "waiting", "returned", "raised"
    sVariant,   \* which copy of the shim runs: "main" (src/main.py) or "v4"
    sLog,       \* endpoints requested so far in this call, in order
    sResps,     \* responses received so far in this call, in order
    sHits       \* the returned hit list (NoHits while none was returned)

searchVars == <<sPc, sVariant, sLog, sResps, sHits>>

VARIABLES
    aPc,        \* aggregate_sales / aggregate_volume: "idle", "waiting" (a
                \* scroll request is pending), "yielding" (a page is being
                \* consumed), "done" (result returned), "failed" (HTTPException)
    aKind,      \* "sales" or "volume"
    aYear,      \* the year argument
    aMonth,     \* the month argument
    aOut,       \* the outcome of the call: status and AggregationResult
    aCount,     \* count (records_aggregated)
    aBad,       \* bad_rows (records_skipped)
    aTotal,     \* total_sales / total_units, in tenths
    gOffset,    \* scroll_query_with_filter: the local variable offset
    gPage,      \* the points of the current page that are not yet yielded
    gNext,      \* next_offset of the current page
    gReqs,      \* the offset carried by each scroll request of this call
    gCursors,   \* the next-cursor value carried by each response of this call
    gPages,     \* the pages received in this call, in order
    gYielded,   \* the payloads yielded in this call, in order
    gEarlier,   \* the offset the call before this one ended with (AbsentV
                \* while no call has ended)
    gFault      \* the response (or transport failure) on which a scroll
                \* request of this call raised (NoneV while none did)

aggVars == <<aPc, aKind, aYear, aMonth, aOut, aCount, aBad, aTotal>>
scrollVars == <<gOffset, gPage, gNext, gReqs, gCursors, gPages, gYielded, gEarlier, gFault>>

VARIABLES
    cPc,        \* chat: "idle", "routed"
    cQuestion,  \* the question, as its sequence of tokens
    cYear,      \* year of parse_year_month_from_text (NoneV when not found)
    cMonth,     \* month of parse_year_month_from_text (NoneV when not found)
    cIntent     \* the branch chat takes: "revenue", "volume" or "retrieval"

chatVars == <<cPc, cQuestion, cYear, cMonth, cIntent>>

VARIABLES
    nPc,        \* normalize_metadata: "idle", "done"
    nDoc,       \* the raw record
    nClass,     \* the collection (class_name)
    nOut,       \* the normalized record returned
    nRaised     \* an exception left normalize_metadata

normVars == <<nPc, nDoc, nClass, nOut, nRaised>>

VARIABLES
    rPc,        \* retrieve_hits: "idle", "embedded" (the query vector is
                \* there, the search runs), "returned"
    rEmbed,     \* what embed_query gave ("none" before the call)
    rHits       \* the hit list retrieve_hits returned

retrieveVars == <<rPc, rEmbed, rHits>>

VARIABLES
    qPc,        \* iso_month_range: "idle", "done"
    qYear,      \* the year argument
    qMonth,     \* the month argument
    qOut        \* what the call gave: the pair (start, end), or an exception

rangeVars == <<qPc, qYear, qMonth, qOut>>

VARIABLES
    kProc,      \* concurrent requests: for each request its position, its
                \* kind, the requests it sent, the responses it got and its
                \* outcome
    kFrame      \* the local variables of each call: offset, next_offset,
                \* the points not yet yielded, count, bad_rows and total

concVars == <<kProc, kFrame>>

VARIABLES
    iPc,        \* parse_and_normalize applied twice: "idle", "once", "twice"
    iIn,        \* the payload given
    iOnce,      \* parse_and_normalize(payload)
    iTwice      \* parse_and_normalize(parse_and_normalize(payload))

idemVars == <<iPc, iIn, iOnce, iTwice>>

VARIABLES
    fPc,        \* fix_payloads_main: "idle", "scanning", "broke" (the limit
                \* ended the loop), "done", "failed"
    fDry,       \* dry_run
    fBatch,     \* batch_size
    fLimit,     \* limit (NoneV when not given)
    fScanned,   \* the points the scroll yielded so far, in order
    fToUpsert,  \* to_upsert
    fChanged,   \* changed
    fSkipped,   \* skipped_unparseable
    fFetches,   \* the ids whose vector was asked for with a scroll request
    fSent       \* the batches given to upsert_points and sent, in order

fixVars == <<fPc, fDry, fBatch, fLimit, fScanned, fToUpsert, fChanged, fSkipped,
             fFetches, fSent>>

VARIABLES
    uPc,        \* upsert_points: "idle", "batch" (the batch PUT is pending),
                \* "retry" (a PUT of one point is pending), "returned", "raised"
    uPoints,    \* the points argument
    uReqs,      \* the PUT requests sent so far: the points of each body
    uResps      \* the responses to the PUT requests, in order

upsertVars == <<uPc, uPoints, uReqs, uResps>>

vars == <<searchVars, aggVars, scrollVars, chatVars, normVars, retrieveVars, rangeVars,
          concVars, idemVars, fixVars, upsertVars>>

\* the variables a search call, an aggregation, a chat routing and a
\* normalization leave alone
notSearchVars ==
    <<aggVars, scrollVars, chatVars, normVars, retrieveVars, rangeVars, concVars,
      idemVars, fixVars, upsertVars>>
notAggVars ==
    <<searchVars, chatVars, normVars, retrieveVars, rangeVars, concVars,
      idemVars, fixVars, upsertVars>>
notChatVars ==
    <<searchVars, aggVars, scrollVars, normVars, retrieveVars, rangeVars, concVars,
      idemVars, fixVars, upsertVars>>
notNormVars ==
    <<searchVars, aggVars, scrollVars, chatVars, retrieveVars, rangeVars, concVars,
      idemVars, fixVars, upsertVars>>
notRangeVars ==
    <<searchVars, aggVars, scrollVars, chatVars, normVars, retrieveVars, concVars,
      idemVars, fixVars, upsertVars>>
notConcVars ==
    <<searchVars, aggVars, scrollVars, chatVars, normVars, retrieveVars, rangeVars,
      idemVars, fixVars, upsertVars>>
mainVars ==
    <<searchVars, aggVars, scrollVars, chatVars, normVars, retrieveVars, rangeVars, concVars>>
notIdemVars == <<mainVars, fixVars, upsertVars>>
notFixVars == <<mainVars, idemVars, upsertVars>>
notUpsertVars == <<mainVars, idemVars, fixVars>>
notRetrieveVars ==
    <<searchVars, aggVars, scrollVars, chatVars, normVars, rangeVars, concVars,
      idemVars, fixVars, upsertVars>>

-----------------------------------------------------------------------------
(* Python values.  Every value is a tagged record so that values of        *)
(* different Python types can be compared.                                 *)

NoneV == [t |-> "none"]
\* a key that is missing from a dict (dict.get without default gives NoneV)
AbsentV == [t |-> "absent"]
IntV(n) == [t |-> "int", n |-> n]
\* a finite float, held in tenths: FloatV(12) is 1.2
FloatV(m) == [t |-> "float", k |-> "fin", m |-> m]
NaNV == [t |-> "float", k |-> "nan", m |-> 0]
InfV == [t |-> "float", k |-> "inf", m |-> 0]
NegInfV == [t |-> "float", k |-> "-inf", m |-> 0]
\* a string, held as its sequence of characters
StrV(cs) == [t |-> "str", s |-> cs]
\* a dict, held as a function from its keys to values
MapV(f) == [t |-> "map", m |-> f]
EmptyMap == MapV(<<>>)
BoolV(b) == [t |-> "bool", b |-> b]
\* a list (or tuple), held as the sequence of its items
ListV(items) == [t |-> "list", l |-> items]

\* bool(v) of Python
Truthy(v) ==
    CASE v.t = "none" -> FALSE
      [] v.t = "absent" -> FALSE
      [] v.t = "int" -> v.n # 0
      [] v.t = "float" -> ~(v.k = "fin" /\ v.m = 0)
      [] v.t = "str" -> Len(v.s) > 0
      [] v.t = "map" -> DOMAIN v.m # {}
      [] v.t = "bool" -> v.b
      [] v.t = "list" -> Len(v.l) > 0
      [] OTHER -> TRUE

\* a or b of Python
PyOr(a, b) == IF Truthy(a) THEN a ELSE b

\* d.get(key) of Python on a value read from a dict
GetOrNone(v) == IF v = AbsentV THEN NoneV ELSE v

\* d.get(key, default)
GetOrDefault(v, default) == IF v = AbsentV THEN default ELSE v

RECURSIVE SeqsUpTo(_, _)
\* all sequences over S of length at most n
SeqsUpTo(S, n) ==
    IF n = 0 THEN {<<>>}
    ELSE LET shorter == SeqsUpTo(S, n - 1)
         IN shorter \cup {Append(q, e) : q \in {r \in shorter : Len(r) = n - 1}, e \in S}

-----------------------------------------------------------------------------
(* Search compatibility shim                                               *)

\* longest point list a search response holds
MaxPoints == 2

\* the status the legacy branch of main.py accepts
HTTP_OK == 200

\* statuses the store answers with: success statuses and error statuses
SuccessStatuses == {HTTP_OK, 202}
ErrorStatuses == {404, 500}

SamplePayload == MapV([product_name |-> StrV(<<"a">>)])

\* a point of a search response: a JSON object with id, score and payload,
\* or a JSON value that is not an object
DictPoint(id, score, payload) ==
    [isdict |-> TRUE, id |-> id, score |-> score, payload |-> payload]
NonDictPoint ==
    [isdict |-> FALSE, id |-> AbsentV, score |-> AbsentV, payload |-> AbsentV]

SearchPointSet ==
    { DictPoint(IntV(1), IntV(9), SamplePayload),
      DictPoint(IntV(2), IntV(5), NoneV),
      DictPoint(IntV(3), AbsentV, AbsentV),
      NonDictPoint }

\* Response bodies, by the shape of the JSON envelope:
\*   "notjson"   the body is not JSON
\*   "toplist"   the body is a JSON list
\*   "nested"    {"result": {"points": [...]}}
\*   "flat"      {"result": [...]}
\*   "dict"      {"result": {...}} without "points"; points holds the keys
\*   "null"      {"result": null}
\*   "nokey"     an object without "result" and without "points"
\*   "toppoints" {"points": [...]} without "result"
ListBodies ==
    { [kind |-> k, points |-> ps] :
        k \in {"nested", "flat", "toppoints"},
        ps \in SeqsUpTo(SearchPointSet, MaxPoints) }
DictBodies ==
    { [kind |-> "dict", points |-> ks] : ks \in SeqsUpTo({NonDictPoint}, MaxPoints) }
PlainBodies ==
    { [kind |-> k, points |-> <<>>] : k \in {"notjson", "toplist", "null", "nokey"} }
SearchBodies == ListBodies \cup DictBodies \cup PlainBodies

ErrorBody == [kind |-> "nokey", points |-> <<>>]

\* what requests.post gives: a response with a status, or an exception
\* (connection error, timeout), status 0
TransportFailure == [status |-> 0, body |-> ErrorBody]
SearchResponses ==
    { [status |-> s, body |-> b] : s \in SuccessStatuses, b \in SearchBodies }
    \cup { [status |-> s, body |-> ErrorBody] : s \in ErrorStatuses }
    \cup { TransportFailure }

\* r.raise_for_status(): raises for 4xx and 5xx
RaiseForStatus(r) == r.status >= 400 /\ r.status < 600

\* mutant: the modern endpoint is tried a second time
EndpointsWithRetry == <<"search", "query", "query">>

\* mutant: the shim gives up after the first endpoint
EndpointsNoFallback == <<"search">>

\* the order in which the endpoints are tried
Endpoints == <<"search", "query">>

\* does the try block get past the status check of the response?
\* main.py checks status_code == 200 on /points/search and raise_for_status
\* on /points/query; v4 uses raise_for_status on both.
StatusAccepted(variant, endpoint, r) ==
    /\ r # TransportFailure
    /\ IF variant = "main" /\ endpoint = "search"
       THEN r.status = HTTP_OK
       ELSE ~RaiseForStatus(r)

\* the envelope detection: the list that is iterated, or a raise
EnvelopePoints(variant, b) ==
    CASE b.kind \in {"notjson", "toplist"} -> [raises |-> TRUE, points |-> <<>>]
      [] b.kind \in {"nested", "flat"} -> [raises |-> FALSE, points |-> b.points]
      [] b.kind = "dict" -> [raises |-> FALSE, points |-> b.points]
      [] b.kind = "null" ->
            IF variant = "main"
            THEN [raises |-> TRUE, points |-> <<>>]
            ELSE [raises |-> FALSE, points |-> <<>>]
      [] b.kind = "nokey" -> [raises |-> FALSE, points |-> <<>>]
      [] b.kind = "toppoints" ->
            IF variant = "main"
            THEN [raises |-> FALSE, points |-> <<>>]
            ELSE [raises |-> FALSE, points |-> b.points]

\* the hit built from one point by main.py
HitOfMain(p) ==
    [id |-> IF p.isdict THEN GetOrNone(p.id) ELSE NoneV,
     score |-> IF p.isdict THEN GetOrNone(p.score) ELSE NoneV,
     payload |-> PyOr(IF p.isdict THEN GetOrNone(p.payload) ELSE EmptyMap, EmptyMap)]

\* the hit built from one dict point by v4
HitOfV4(p) ==
    [id |-> GetOrNone(p.id),
     score |-> GetOrNone(p.score),
     payload |-> GetOrDefault(p.payload, EmptyMap)]

RECURSIVE BuildHitsV4(_)
BuildHitsV4(ps) ==
    IF ps = <<>> THEN <<>>
    ELSE IF Head(ps).isdict
         THEN <<HitOfV4(Head(ps))>> \o BuildHitsV4(Tail(ps))
         ELSE BuildHitsV4(Tail(ps))

\* mutant: the hits come out in reverse order
BuildHitsMainReversed(ps) == [i \in 1..Len(ps) |-> HitOfMain(ps[Len(ps) + 1 - i])]

BuildHitsMain(ps) == [i \in 1..Len(ps) |-> HitOfMain(ps[i])]

\* the loop over the points
BuildHits(variant, ps) ==
    IF variant = "main" THEN BuildHitsMain(ps) ELSE BuildHitsV4(ps)

\* one try block: the hits it returns, or a failure that is swallowed
SearchAttempt(variant, endpoint, r) ==
    IF ~StatusAccepted(variant, endpoint, r)
    THEN [ok |-> FALSE, hits |-> <<>>]
    ELSE LET e == EnvelopePoints(variant, r.body)
         IN IF e.raises
            THEN [ok |-> FALSE, hits |-> <<>>]
            ELSE [ok |-> TRUE, hits |-> BuildHits(variant, e.points)]

NoHits == [returned |-> FALSE, hits |-> <<>>]
Returned(hs) == [returned |-> TRUE, hits |-> hs]

SearchInit ==
    /\ sPc = "idle"
    /\ sVariant = "main"
    /\ sLog = <<>>
    /\ sResps = <<>>
    /\ sHits = NoHits

\* http_search_collection is called: the first endpoint is requested
SearchCall(variant) ==
    /\ sPc = "idle"
    /\ sPc' = "waiting"
    /\ sVariant' = variant
    /\ sLog' = <<Endpoints[1]>>
    /\ UNCHANGED <<sResps, sHits>>
    /\ UNCHANGED notSearchVars

\* the pending request is answered (or fails) and the shim goes on: it
\* returns the hits, requests the next endpoint, or raises RuntimeError
SearchRespond(responses) ==
    /\ sPc = "waiting"
    /\ \E r \in responses :
          /\ sResps' = Append(sResps, r)
          /\ LET a == SearchAttempt(sVariant, sLog[Len(sLog)], r)
             IN IF a.ok
                THEN /\ sPc' = "returned"
                     /\ sHits' = Returned(a.hits)
                     /\ sLog' = sLog
                ELSE IF Len(sLog) < Len(Endpoints)
                     THEN /\ sPc' = "waiting"
                          /\ sLog' = Append(sLog, Endpoints[Len(sLog) + 1])
                          /\ sHits' = sHits
                     ELSE /\ sPc' = "raised"
                          /\ sLog' = sLog
                          /\ sHits' = sHits
    /\ UNCHANGED sVariant
    /\ UNCHANGED notSearchVars

SearchNext ==
    \/ \E variant \in {"main", "v4"} : SearchCall(variant)
    \/ SearchRespond(SearchResponses)

-----------------------------------------------------------------------------
(* float(str) of Python, over the characters the model uses.  A finite     *)
(* float is held in tenths, so fractional digits after the first are       *)
(* below the model's precision.                                            *)

Digits == {"0", "1", "2", "3", "4", "5", "6", "7", "8", "9"}
DigitVal(c) == CHOOSE n \in 0..9 : <<"0", "1", "2", "3", "4", "5", "6", "7", "8", "9">>[n + 1] = c

RECURSIVE DigitsVal(_)
\* the number a digit string denotes (0 for the empty string)
DigitsVal(cs) ==
    IF cs = <<>> THEN 0
    ELSE DigitsVal(SubSeq(cs, 1, Len(cs) - 1)) * 10 + DigitVal(cs[Len(cs)])

IsDigits(cs) == \A i \in 1..Len(cs) : cs[i] \in Digits

RECURSIVE StripSpaces(_)
\* str.strip() for blanks, which float() applies first
StripSpaces(cs) ==
    IF cs = <<>> THEN cs
    ELSE IF Head(cs) = " " THEN StripSpaces(Tail(cs))
    ELSE IF cs[Len(cs)] = " " THEN StripSpaces(SubSeq(cs, 1, Len(cs) - 1))
    ELSE cs

ParseFailed == [ok |-> FALSE, val |-> NoneV]
Parsed(v) == [ok |-> TRUE, val |-> v]

\* an unsigned literal: inf, nan, or digits with at most one point
ParseUnsigned(cs) ==
    IF cs = <<"i", "n", "f">> THEN Parsed(InfV)
    ELSE IF cs = <<"n", "a", "n">> THEN Parsed(NaNV)
    ELSE LET dots == {i \in 1..Len(cs) : cs[i] = "."}
             d == IF dots = {} THEN Len(cs) + 1 ELSE CHOOSE i \in dots : TRUE
             ip == SubSeq(cs, 1, d - 1)
             fp == SubSeq(cs, d + 1, Len(cs))
         IN IF Cardinality(dots) > 1 \/ ~IsDigits(ip) \/ ~IsDigits(fp)
                \/ Len(ip) + Len(fp) = 0
            THEN ParseFailed
            ELSE Parsed(FloatV(DigitsVal(ip) * 10
                               + (IF fp = <<>> THEN 0 ELSE DigitVal(fp[1]))))

NegateFloat(v) ==
    CASE v.k = "fin" -> FloatV(-v.m)
      [] v.k = "inf" -> NegInfV
      [] v.k = "-inf" -> InfV
      [] OTHER -> v

\* float(s) for a string s: the value, or ValueError
ParseFloat(cs) ==
    LET st == StripSpaces(cs)
    IN IF st = <<>> THEN ParseFailed
       ELSE IF Head(st) = "-"
            THEN LET u == ParseUnsigned(Tail(st))
                 IN IF u.ok THEN Parsed(NegateFloat(u.val)) ELSE ParseFailed
       ELSE IF Head(st) = "+" THEN ParseUnsigned(Tail(st))
       ELSE ParseUnsigned(st)

\* float(v): ints and floats convert, strings are parsed, anything else
\* raises TypeError
PyFloat(v) ==
    CASE v.t = "int" -> Parsed(FloatV(v.n * 10))
      [] v.t = "float" -> Parsed(v)
      [] v.t = "str" -> ParseFloat(v.s)
      [] v.t = "bool" -> Parsed(FloatV(IF v.b THEN 10 ELSE 0))
      [] OTHER -> ParseFailed

\* math.isfinite
IsFinite(f) == f.k = "fin"

\* s.replace(",", "")
RemoveCommas(cs) == SelectSeq(cs, LAMBDA c : c # ",")

-----------------------------------------------------------------------------
(* Scroll pagination generator                                             *)

\* most records the store delivers to one scroll call, over all its pages
MaxRecords == 3

\* the cursor fields of a scroll response: next_page, next_page_offset and
\* offset inside "result", and the same three at the top level
NoCursor ==
    [rNextPage |-> AbsentV, rNextPageOffset |-> AbsentV, rOffset |-> AbsentV,
     tNextPage |-> AbsentV, tNextPageOffset |-> AbsentV, tOffset |-> AbsentV]
CursorFields ==
    {"rNextPage", "rNextPageOffset", "rOffset", "tNextPage", "tNextPageOffset", "tOffset"}

\* Scroll bodies, by the shape of the JSON envelope:
\*   "notjson"  the body is not JSON
\*   "toplist"  the body is a JSON list
\*   "nested"   {"result": {"points": [...], cursor...}, cursor...}
\*   "flat"     {"result": [...], cursor...}
\*   "toppoints" {"points": [...], cursor...}
\*   "dict"     {"result": {cursor...}} without points
ResultIsDict(b) == b.kind \in {"nested", "dict"}

\* the points of a page (lines 180-190)
ScrollPoints(b) ==
    CASE b.kind \in {"notjson", "toplist"} -> [raises |-> TRUE, points |-> <<>>]
      [] b.kind \in {"nested", "flat", "toppoints"} -> [raises |-> FALSE, points |-> b.points]
      [] OTHER -> [raises |-> FALSE, points |-> <<>>]

\* next_offset (lines 195-198)
NextOffset(b) ==
    LET c == b.cur
        inner == IF ResultIsDict(b)
                 THEN PyOr(PyOr(GetOrNone(c.rNextPage), GetOrNone(c.rNextPageOffset)),
                           GetOrNone(c.rOffset))
                 ELSE NoneV
    IN PyOr(PyOr(PyOr(inner, GetOrNone(c.tNextPage)), GetOrNone(c.tNextPageOffset)),
            GetOrNone(c.tOffset))

\* the payload yielded for one point (line 194)
YieldOf(p) == IF p.isdict THEN GetOrDefault(p.payload, EmptyMap) ELSE EmptyMap

\* mutant: a fresh call resumes from the cursor the last call reached
ScrollStartOffsetStale == gOffset

\* the offset a call starts with (line 172)
ScrollStartOffset == NoneV

\* mutant: the generator goes on after a page without a next cursor
ScrollStopsNever(next) == FALSE

\* the generator stops after a page whose next_offset is falsy (line 199)
ScrollStops(next) == ~Truthy(next)

\* mutant: the page is yielded from its second point on
PageToYieldSkipFirst(points) == Tail(points)

\* the points of a page that are yielded, in order (line 193)
PageToYield(points) == points

\* the offset of the request after a page (line 201)
OffsetForNextRequest(next) == next

-----------------------------------------------------------------------------
(* Month aggregators                                                       *)

\* iso_month_range raises for a year datetime cannot hold (lines 162-166)
\* (datetime holds the years 1..9999)
MonthRangeRaises(year, month) ==
    \/ year < 1
    \/ year > 9999
    \/ (month = 12 /\ year + 1 > 9999)

\* mutant: month 0 passes the validation
MonthValidFromZero(month) == 0 <= month /\ month <= 12

\* the validation of the month argument (lines 206, 248)
MonthValid(month) == 1 <= month /\ month <= 12

\* payload.get(key)
PayloadGet(y, key) == IF key \in DOMAIN y.m THEN y.m[key] ELSE NoneV

\* the value the aggregator takes from a payload (lines 221, 263)
CandidateValue(kind, y) ==
    IF kind = "sales"
    THEN PyOr(PayloadGet(y, "sales"), PayloadGet(y, "sales_amount"))
    ELSE PyOr(PyOr(PayloadGet(y, "sales_vol"), PayloadGet(y, "quantity")),
              PayloadGet(y, "sales_volume"))

\* the value handed to float() (lines 226-227, 268-269)
ValueToParse(v) == IF v.t = "str" THEN StrV(RemoveCommas(v.s)) ELSE v

\* mutant: a value that does not parse to a finite number is passed over
\* without being counted
AggStepUncounted(kind, y) ==
    IF y.t # "map" THEN [act |-> "raise", amount |-> 0]
    ELSE LET v == CandidateValue(kind, y)
             f == PyFloat(ValueToParse(v))
         IN IF v # NoneV /\ f.ok /\ IsFinite(f.val)
            THEN [act |-> "add", amount |-> f.val.m]
            ELSE [act |-> "pass", amount |-> 0]

\* the body of the for loop on one payload: "raise" when the payload is
\* not a dict (payload.get raises AttributeError), else "add" with the
\* amount in tenths, or "skip"
AggStep(kind, y) ==
    IF y.t # "map" THEN [act |-> "raise", amount |-> 0]
    ELSE LET v == CandidateValue(kind, y)
         IN IF v = NoneV THEN [act |-> "skip", amount |-> 0]
            ELSE LET f == PyFloat(ValueToParse(v))
                 IN IF f.ok /\ IsFinite(f.val)
                    THEN [act |-> "add", amount |-> f.val.m]
                    ELSE [act |-> "skip", amount |-> 0]

NoOutcome == [status |-> 0, count |-> 0, bad |-> 0, total |-> 0]
Failure(status) == [status |-> status, count |-> 0, bad |-> 0, total |-> 0]
AggregationResult(count, bad, total) ==
    [status |-> HTTP_OK, count |-> count, bad |-> bad, total |-> total]

AggInit ==
    /\ aPc = "idle"
    /\ aKind = "sales"
    /\ aYear = 0
    /\ aMonth = 0
    /\ aOut = NoOutcome
    /\ aCount = 0
    /\ aBad = 0
    /\ aTotal = 0
    /\ gOffset = NoneV
    /\ gPage = <<>>
    /\ gNext = NoneV
    /\ gReqs = <<>>
    /\ gCursors = <<>>
    /\ gPages = <<>>
    /\ gYielded = <<>>
    /\ gEarlier = AbsentV
    /\ gFault = NoneV

\* aggregate_sales / aggregate_volume is called.  An invalid month or year
\* fails with 400; otherwise the loop starts the generator, which sends its
\* first request.
AggCall(kind, year, month) ==
    /\ aPc = "idle"
    /\ aKind' = kind
    /\ aYear' = year
    /\ aMonth' = month
    /\ IF ~MonthValid(month) \/ MonthRangeRaises(year, month)
       THEN /\ aPc' = "failed"
            /\ aOut' = Failure(400)
            /\ UNCHANGED <<gReqs, gOffset>>
       ELSE /\ aPc' = "waiting"
            /\ aOut' = NoOutcome
            /\ gOffset' = ScrollStartOffset
            /\ gReqs' = <<ScrollStartOffset>>
    /\ UNCHANGED <<aCount, aBad, aTotal>>
    /\ UNCHANGED <<gPage, gNext, gCursors, gPages, gYielded, gEarlier, gFault>>
    /\ UNCHANGED notAggVars

\* the call is over and its locals are gone; the handler is ready for the
\* next call.  What the generator's offset cell last held is kept, to show
\* that the next call does not read it.
AggReturn ==
    /\ aPc \in {"done", "failed"}
    /\ aPc' = "idle"
    /\ aKind' = "sales"
    /\ aYear' = 0
    /\ aMonth' = 0
    /\ aOut' = NoOutcome
    /\ aCount' = 0
    /\ aBad' = 0
    /\ aTotal' = 0
    /\ gPage' = <<>>
    /\ gNext' = NoneV
    /\ gReqs' = <<>>
    /\ gCursors' = <<>>
    /\ gPages' = <<>>
    /\ gYielded' = <<>>
    /\ gEarlier' = gOffset
    /\ gFault' = NoneV
    /\ UNCHANGED gOffset
    /\ UNCHANGED notAggVars

RECURSIVE Flatten(_)
\* the records of a sequence of pages, in order
Flatten(pages) == IF pages = <<>> THEN <<>> ELSE Head(pages) \o Flatten(Tail(pages))

\* the number of records the store may still deliver to this call
RecordsLeft == MaxRecords - Len(Flatten(gPages))

\* the cursor value a response carries: the value of its cursor field
ResponseCursor(b) ==
    IF \A f \in CursorFields : b.cur[f] = AbsentV THEN AbsentV
    ELSE b.cur[CHOOSE f \in CursorFields : b.cur[f] # AbsentV]

\* the exception a scroll request raises on a response (lines 177-190):
\* requests.post raises on a transport failure or timeout, raise_for_status
\* raises HTTPError on an error status, r.json() or resp.get raise on a body
\* that is not a JSON object
ScrollException(r) ==
    IF r = TransportFailure THEN "RequestException"
    ELSE IF RaiseForStatus(r) THEN "HTTPError"
    ELSE IF ScrollPoints(r.body).raises THEN "Exception"
    ELSE "none"

\* mutant: every exception of the scroll is reported as an internal error
FailureStatusInternalOnly(exception) == 500

\* the status of the HTTPException the aggregator raises for an exception
\* that leaves the scroll loop (lines 236-241)
FailureStatus(exception) == IF exception = "HTTPError" THEN 502 ELSE 500

\* mutant: the generator catches the exception and sends the request again
ScrollRaiseRetried(r) ==
    /\ aPc' = "waiting"
    /\ aOut' = aOut
    /\ gFault' = r
    /\ gReqs' = Append(gReqs, gOffset)
    /\ UNCHANGED <<gPage, gNext, gCursors, gPages>>

\* the request raised: nothing in the generator catches the exception, so
\* it leaves the generator and the loop of the aggregator, which turns it
\* into an HTTPException; no further request is sent
ScrollRaise(r) ==
    /\ aPc' = "failed"
    /\ aOut' = Failure(FailureStatus(ScrollException(r)))
    /\ gFault' = r
    /\ UNCHANGED <<gPage, gNext, gCursors, gPages, gReqs>>

\* the pending scroll request is answered.  An error status raises
\* HTTPError (502); a transport failure or an undecodable body raises
\* another exception (500); an empty page ends the generator and the
\* aggregator returns its result; any other page is kept to be yielded.
\* (The store answers with one of `responses`, indexed by the number of
\* records it may still deliver.)
ScrollRespond(responses) ==
    /\ aPc = "waiting"
    /\ \E r \in responses[RecordsLeft] :
          IF ScrollException(r) # "none"
          THEN ScrollRaise(r)
          ELSE LET e == ScrollPoints(r.body)
               IN /\ gFault' = gFault
                  /\ gReqs' = gReqs
                  /\ gCursors' = Append(gCursors, ResponseCursor(r.body))
                  /\ gPages' = Append(gPages, r.body.points)
                  /\ IF e.points = <<>>
                     THEN /\ aPc' = "done"
                          /\ aOut' = AggregationResult(aCount, aBad, aTotal)
                          /\ UNCHANGED <<gPage, gNext>>
                     ELSE /\ aPc' = "yielding"
                          /\ aOut' = aOut
                          /\ gPage' = PageToYield(e.points)
                          /\ gNext' = NextOffset(r.body)
    /\ UNCHANGED <<aKind, aYear, aMonth, aCount, aBad, aTotal>>
    /\ UNCHANGED <<gOffset, gYielded, gEarlier>>
    /\ UNCHANGED notAggVars

\* the generator yields the next payload of the page and the loop body runs
\* on it; after the last payload of the page the generator goes on: it
\* stops, or sends the next request.
AggConsume ==
    /\ aPc = "yielding"
    /\ gPage # <<>>
    /\ LET y == YieldOf(Head(gPage))
           step == AggStep(aKind, y)
           rest == Tail(gPage)
       IN /\ gYielded' = Append(gYielded, y)
          /\ gPage' = rest
          /\ aCount' = IF step.act = "add" THEN aCount + 1 ELSE aCount
          /\ aBad' = IF step.act = "skip" THEN aBad + 1 ELSE aBad
          /\ aTotal' = IF step.act = "add" THEN aTotal + step.amount ELSE aTotal
          /\ IF step.act = "raise"
             THEN /\ aPc' = "failed"
                  /\ aOut' = Failure(FailureStatus("Exception"))
                  /\ UNCHANGED <<gOffset, gReqs>>
             ELSE IF rest # <<>>
             THEN /\ aPc' = "yielding"
                  /\ UNCHANGED <<aOut, gOffset, gReqs>>
             ELSE IF ScrollStops(gNext)
             THEN /\ aPc' = "done"
                  /\ aOut' = AggregationResult(aCount', aBad', aTotal')
                  /\ UNCHANGED <<gOffset, gReqs>>
             ELSE /\ aPc' = "waiting"
                  /\ aOut' = aOut
                  /\ gOffset' = OffsetForNextRequest(gNext)
                  /\ gReqs' = Append(gReqs, gOffset')
    /\ UNCHANGED <<aKind, aYear, aMonth, gNext, gCursors, gPages, gEarlier, gFault>>
    /\ UNCHANGED notAggVars

-----------------------------------------------------------------------------
(* The store, as the scroll generator meets it                             *)

WithCursor(field, v) == [NoCursor EXCEPT ![field] = v]

\* envelopes of a page: where the points are and where the cursor is
ScrollEnvelopes ==
    { [kind |-> "nested", cur |-> c] :
        c \in {NoCursor} \cup {WithCursor("rNextPageOffset", v) : v \in {NoneV, IntV(0), IntV(1), IntV(2)}}
              \cup {WithCursor(f, IntV(1)) : f \in CursorFields} }
    \cup { [kind |-> "flat", cur |-> c] : c \in {NoCursor, WithCursor("tNextPageOffset", IntV(2))} }
    \cup { [kind |-> "toppoints", cur |-> c] : c \in {NoCursor, WithCursor("tOffset", IntV(1))} }

ScrollPointSet ==
    { DictPoint(IntV(1), AbsentV, MapV([sales |-> StrV(<<"7">>)])),
      DictPoint(IntV(2), AbsentV, MapV([sales |-> StrV(<<"b", "a", "d">>)])),
      DictPoint(IntV(3), AbsentV, AbsentV),
      NonDictPoint }

Page(envelope, ps) == [kind |-> envelope.kind, cur |-> envelope.cur, points |-> ps]

\* bodies without a page: undecodable, a bare list, a result without points
PagelessBodies ==
    { [kind |-> k, cur |-> NoCursor, points |-> <<>>] : k \in {"notjson", "toplist"} }
    \cup { [kind |-> "dict", cur |-> WithCursor("rNextPageOffset", IntV(1)), points |-> <<>>] }

ScrollErrorBody == [kind |-> "dict", cur |-> NoCursor, points |-> <<>>]
ScrollFailures ==
    { [status |-> s, body |-> ScrollErrorBody] : s \in ErrorStatuses }
    \cup { [status |-> 0, body |-> ErrorBody] }

\* what the store may answer to a scroll request in the scroll runs, by
\* the number n of records it may still deliver
ScrollResponses ==
    [n \in 0..MaxRecords |->
        { [status |-> HTTP_OK, body |-> Page(e, ps)] :
            e \in ScrollEnvelopes, ps \in SeqsUpTo(ScrollPointSet, n) }
        \cup { [status |-> HTTP_OK, body |-> b] : b \in PagelessBodies }
        \cup ScrollFailures]

\* payloads of the aggregation runs: the candidate fields hold a text with
\* a thousands separator, an unparsable text, null, the number 0, a text
\* that parses to a non-finite float, or are missing
AggPayloadSet ==
    { MapV([sales |-> StrV(<<"1", ",", "2", "0", "0">>), sales_vol |-> StrV(<<"1", ",", "2", "0", "0">>)]),
      MapV([sales |-> StrV(<<"b", "a", "d">>), sales_vol |-> StrV(<<"b", "a", "d">>)]),
      MapV([sales |-> NoneV, sales_vol |-> NoneV]),
      MapV([sales |-> IntV(0), quantity |-> IntV(0)]),
      MapV([sales_amount |-> FloatV(25), sales_volume |-> IntV(4)]),
      MapV([sales |-> StrV(<<"i", "n", "f">>), quantity |-> StrV(<<"n", "a", "n">>)]),
      MapV([product_name |-> StrV(<<"a">>)]) }

AggPointSet ==
    { DictPoint(IntV(1), AbsentV, y) : y \in AggPayloadSet }
    \cup { DictPoint(IntV(2), AbsentV, NoneV) }

\* what the store may answer to a scroll request in the aggregation runs,
\* by the number n of records it may still deliver
AggResponses ==
    [n \in 0..MaxRecords |->
        { [status |-> HTTP_OK,
           body |-> Page([kind |-> "nested", cur |-> WithCursor("rNextPageOffset", v)], ps)] :
            v \in {NoneV, IntV(1)}, ps \in SeqsUpTo(AggPointSet, n) }
        \cup { [status |-> HTTP_OK, body |-> [kind |-> "notjson", cur |-> NoCursor, points |-> <<>>]] }
        \cup ScrollFailures]


-----------------------------------------------------------------------------
(* Intent detection and the chat router                                    *)

\* longest question, in tokens
MaxTokens == 4

\* A question is a sequence of tokens separated by blanks: a word, a year
\* 20dd, or a year-separator-digits group such as 2024-03.
Word(w) == [k |-> "word", w |-> w, y |-> 0, m |-> 0]
YearTok(y) == [k |-> "year", w |-> "", y |-> y, m |-> 0]
YearMonthTok(y, m) == [k |-> "ym", w |-> "", y |-> y, m |-> m]

\* MONTH_MAP (lines 291-296)
MONTH_MAP ==
    [january |-> 1, jan |-> 1, february |-> 2, feb |-> 2, march |-> 3, mar |-> 3,
     april |-> 4, apr |-> 4, may |-> 5, june |-> 6, jun |-> 6, july |-> 7, jul |-> 7,
     august |-> 8, aug |-> 8, september |-> 9, sep |-> 9, sept |-> 9,
     october |-> 10, oct |-> 10, november |-> 11, nov |-> 11, december |-> 12, dec |-> 12]

\* str.lower() on the words of the model that hold capitals
LowerWord(w) ==
    CASE w = "March" -> "march"
      [] w = "Revenue" -> "revenue"
      [] OTHER -> w

\* text.lower()
LowerText(q) ==
    [i \in 1..Len(q) |-> IF q[i].k = "word" THEN Word(LowerWord(q[i].w)) ELSE q[i]]

\* revenue_keywords (lines 325-328) and volume_keywords (lines 333-336),
\* each phrase as its words
RevenueKeywords ==
    { <<"total", "sales">>, <<"sum", "of", "sales">>, <<"aggregate", "sales">>,
      <<"revenue">>, <<"sales", "amount">>, <<"total", "revenue">>,
      <<"how", "much", "sales">>, <<"overall", "sales">> }
VolumeKeywords ==
    { <<"total", "units">>, <<"units", "sold">>, <<"sales", "volume">>,
      <<"quantity", "sold">>, <<"total", "quantity">>, <<"overall", "volume">> }

\* k in t, for a phrase k
ContainsPhrase(t, phrase) ==
    \E i \in 1..Len(t) :
        /\ i + Len(phrase) - 1 <= Len(t)
        /\ \A j \in 1..Len(phrase) : t[i + j - 1] = Word(phrase[j])

\* is_revenue_aggregation (lines 323-329)
IsRevenueAggregation(q) ==
    LET t == LowerText(q) IN \E k \in RevenueKeywords : ContainsPhrase(t, k)

\* is_volume_aggregation (lines 331-337)
IsVolumeAggregation(q) ==
    LET t == LowerText(q) IN \E k \in VolumeKeywords : ContainsPhrase(t, k)

NoDate == [year |-> NoneV, month |-> NoneV]
DateOf(y, m) == [year |-> IntV(y), month |-> IntV(m)]

\* the least element of a non-empty set of positions: re.search takes the
\* leftmost match
Leftmost(S) == CHOOSE i \in S : \A j \in S : i <= j

IsMonthWord(tok) == tok.k = "word" /\ tok.w \in DOMAIN MONTH_MAP

\* a token that starts with 20dd
StartsWithYear(tok) == tok.k \in {"year", "ym"}

\* parse_year_month_from_text (lines 298-321)
ParseYearMonth(q) ==
    LET t == LowerText(q)
        m1 == {i \in 1..Len(t) : t[i].k = "ym"}
        m2 == {i \in 1..Len(t) - 1 : IsMonthWord(t[i]) /\ StartsWithYear(t[i + 1])}
        m3 == {i \in 1..Len(t) - 1 : t[i].k = "year" /\ IsMonthWord(t[i + 1])}
    IN IF m1 # {} /\ 1 <= t[Leftmost(m1)].m /\ t[Leftmost(m1)].m <= 12
       THEN DateOf(t[Leftmost(m1)].y, t[Leftmost(m1)].m)
       ELSE IF m2 # {}
       THEN DateOf(t[Leftmost(m2) + 1].y, MONTH_MAP[t[Leftmost(m2)].w])
       ELSE IF m3 # {}
       THEN DateOf(t[Leftmost(m3)].y, MONTH_MAP[t[Leftmost(m3) + 1].w])
       ELSE NoDate

\* mutant: the volume branch is tested before the revenue branch
ChatBranchVolumeFirst(q, year, month) ==
    IF IsVolumeAggregation(q) /\ Truthy(year) /\ Truthy(month) THEN "volume"
    ELSE IF IsRevenueAggregation(q) /\ Truthy(year) /\ Truthy(month) THEN "revenue"
    ELSE "retrieval"

\* the branch chat takes (lines 348, 371, 394)
ChatBranch(q, year, month) ==
    IF IsRevenueAggregation(q) /\ Truthy(year) /\ Truthy(month) THEN "revenue"
    ELSE IF IsVolumeAggregation(q) /\ Truthy(year) /\ Truthy(month) THEN "volume"
    ELSE "retrieval"

ChatTokens ==
    { Word("total"), Word("sales"), Word("volume"), Word("Revenue"),
      Word("March"), Word("show"),
      YearTok(2024), YearMonthTok(2023, 5), YearMonthTok(2024, 13) }

Questions == SeqsUpTo(ChatTokens, MaxTokens)

ChatInit ==
    /\ cPc = "idle"
    /\ cQuestion = <<>>
    /\ cYear = NoneV
    /\ cMonth = NoneV
    /\ cIntent = "none"

\* chat receives a question, extracts the date and picks its branch
ChatRoute ==
    /\ cPc = "idle"
    /\ cPc' = "routed"
    /\ \E q \in Questions :
          /\ cQuestion' = q
          /\ LET d == ParseYearMonth(q)
             IN /\ cYear' = d.year
                /\ cMonth' = d.month
                /\ cIntent' = ChatBranch(q, d.year, d.month)
    /\ UNCHANGED notChatVars

\* the response is sent; the handler is ready for the next question
ChatReturn ==
    /\ cPc = "routed"
    /\ cPc' = "idle"
    /\ cQuestion' = <<>>
    /\ cYear' = NoneV
    /\ cMonth' = NoneV
    /\ cIntent' = "none"
    /\ UNCHANGED notChatVars

ChatNext ==
    \/ ChatRoute
    \/ ChatReturn

-----------------------------------------------------------------------------
(* Calendar arithmetic of datetime, and str() / strftime                   *)

\* a datetime.date
DateV(y, m, d) == [t |-> "date", y |-> y, mo |-> m, d |-> d]

IsLeap(y) == (y % 4 = 0 /\ y % 100 # 0) \/ y % 400 = 0

DaysInMonth(y, m) ==
    IF m = 2 THEN (IF IsLeap(y) THEN 29 ELSE 28)
    ELSE IF m \in {4, 6, 9, 11} THEN 30 ELSE 31

RECURSIVE DaysBeforeMonth(_, _)
DaysBeforeMonth(y, m) ==
    IF m = 1 THEN 0 ELSE DaysBeforeMonth(y, m - 1) + DaysInMonth(y, m - 1)

DaysBeforeYear(y) ==
    (y - 1) * 365 + ((y - 1) \div 4) - ((y - 1) \div 100) + ((y - 1) \div 400)

\* date.toordinal(): 0001-01-01 is day 1
Ordinal(y, m, d) == DaysBeforeYear(y) + DaysBeforeMonth(y, m) + d

\* the largest ordinal a date holds: 9999-12-31
MaxOrdinal == Ordinal(9999, 12, 31)

\* the month in which day number n (from 0) of year y lies
RECURSIVE MonthOfYearDay(_, _, _)
MonthOfYearDay(y, n, m) ==
    IF n < DaysBeforeMonth(y, m) + DaysInMonth(y, m) THEN m
    ELSE MonthOfYearDay(y, n, m + 1)

\* date.fromordinal()
FromOrdinal(ord) ==
    LET n0 == ord - 1
        n400 == n0 \div 146097
        r400 == n0 % 146097
        n100 == r400 \div 36524
        r100 == r400 % 36524
        n4 == r100 \div 1461
        r4 == r100 % 1461
        n1 == r4 \div 365
        r1 == r4 % 365
        year == n400 * 400 + 1 + n100 * 100 + n4 * 4 + n1
    IN IF n1 = 4 \/ n100 = 4
       THEN DateV(year - 1, 12, 31)
       ELSE LET m == MonthOfYearDay(year, r1, 1)
            IN DateV(year, m, r1 - DaysBeforeMonth(year, m) + 1)

DigitChar(d) == <<"0", "1", "2", "3", "4", "5", "6", "7", "8", "9">>[d + 1]

RECURSIVE NatToChars(_)
\* str(n) for n >= 0
NatToChars(n) ==
    IF n < 10 THEN <<DigitChar(n)>> ELSE Append(NatToChars(n \div 10), DigitChar(n % 10))

RECURSIVE ZeroPad(_, _)
\* a digit string padded with zeros on the left to the given width
ZeroPad(cs, width) == IF Len(cs) >= width THEN cs ELSE ZeroPad(<<"0">> \o cs, width)

\* date.isoformat(): YYYY-MM-DD
IsoDate(dt) ==
    ZeroPad(NatToChars(dt.y), 4) \o <<"-">> \o ZeroPad(NatToChars(dt.mo), 2)
        \o <<"-">> \o ZeroPad(NatToChars(dt.d), 2)

\* strftime("%Y-%m-%dT%H:%M:%SZ") of the midnight of a date
Rfc3339Midnight(dt) ==
    StrV(IsoDate(dt) \o <<"T", "0", "0", ":", "0", "0", ":", "0", "0", "Z">>)

IntToChars(n) == IF n < 0 THEN <<"-">> \o NatToChars(-n) ELSE NatToChars(n)

\* str(f) of a float held in tenths
FloatToChars(f) ==
    CASE f.k = "nan" -> <<"n", "a", "n">>
      [] f.k = "inf" -> <<"i", "n", "f">>
      [] f.k = "-inf" -> <<"-", "i", "n", "f">>
      [] OTHER ->
            LET a == IF f.m < 0 THEN -f.m ELSE f.m
            IN (IF f.m < 0 THEN <<"-">> ELSE <<>>)
                \o NatToChars(a \div 10) \o <<".">> \o <<DigitChar(a % 10)>>

\* str(v)
PyStr(v) ==
    CASE v.t = "str" -> v.s
      [] v.t = "int" -> IntToChars(v.n)
      [] v.t = "float" -> FloatToChars(v)
      [] v.t = "date" -> IsoDate(v)
      [] OTHER -> <<"N", "o", "n", "e">>

\* mutant: the float is rounded down
FloatToIntFloor(f) ==
    IF f.k # "fin" THEN ParseFailed ELSE Parsed(IntV(f.m \div 10))

\* int(f) of a float: truncation toward zero; ValueError for nan,
\* OverflowError for an infinity
FloatToInt(f) ==
    IF f.k # "fin" THEN ParseFailed
    ELSE Parsed(IntV(IF f.m >= 0 THEN f.m \div 10 ELSE -((-f.m) \div 10)))

\* the positions of the character c in cs
Positions(cs, c) == {i \in 1..Len(cs) : cs[i] = c}

\* datetime.strptime(s, "%Y-%m-%d"): four year digits, one or two month
\* digits, one or two day digits, and a day the month holds
ParseIsoDate(cs) ==
    LET dashes == Positions(cs, "-")
    IN IF Cardinality(dashes) # 2 THEN ParseFailed
       ELSE LET d1 == Leftmost(dashes)
                d2 == Leftmost(dashes \ {d1})
                ys == SubSeq(cs, 1, d1 - 1)
                ms == SubSeq(cs, d1 + 1, d2 - 1)
                ds == SubSeq(cs, d2 + 1, Len(cs))
            IN IF ~(IsDigits(ys) /\ IsDigits(ms) /\ IsDigits(ds))
                    \/ Len(ys) # 4 \/ Len(ms) \notin {1, 2} \/ Len(ds) \notin {1, 2}
               THEN ParseFailed
               ELSE LET y == DigitsVal(ys)
                        m == DigitsVal(ms)
                        d == DigitsVal(ds)
                    IN IF y < 1 \/ m < 1 \/ m > 12 \/ d < 1 THEN ParseFailed
                       ELSE IF d > DaysInMonth(y, m) THEN ParseFailed
                       ELSE Parsed(DateV(y, m, d))

-----------------------------------------------------------------------------
(* Ingestion normalizer                                                    *)

\* most fields a raw record holds
MaxFields == 2

\* TYPE_MAP = build_type_map(SCHEMAS) (lines 38-117)
TYPE_MAP ==
    [product_cost_staging |->
        [month_year |-> "date", sales_vol |-> "int", sum_profit |-> "number",
         cost_per_unit |-> "string", rsp_per_unit |-> "string", product_name |-> "string"],
     transactions_main_staging |->
        [sub_category |-> "string", city |-> "string", order_id |-> "string",
         sales |-> "string", product_name |-> "string", country |-> "string",
         state |-> "string", quantity |-> "int", product_id |-> "string",
         ship_date |-> "date", discount |-> "number", postal_code |-> "string",
         ship_mode |-> "string", customer_name |-> "string", month_year |-> "date",
         region |-> "string", order_date |-> "date", customer_id |-> "string",
         segment |-> "string", category |-> "string", profit |-> "number",
         row_id |-> "int"],
     target_cost_staging |->
        [target_cost |-> "string", product_name |-> "string", month_year |-> "date"],
     sales_vol_staging |->
        [sales |-> "string", product_name |-> "string", sales_vol |-> "int",
         month_year |-> "date"],
     product_inventory_init_staging |->
        [product_name |-> "string", inventory_stock_init |-> "int", month_year |-> "date"]]

\* TYPE_MAP.get(class_name, {}) (line 128)
TypeForClass(class) == IF class \in DOMAIN TYPE_MAP THEN TYPE_MAP[class] ELSE <<>>

\* mutant: the serial days are counted from 1900-01-01
ExcelSerialToDateFrom1900(serial) ==
    LET ord == Ordinal(1900, 1, 1) + serial
    IN IF serial < -999999999 \/ serial > 999999999 \/ ord < 1 \/ ord > MaxOrdinal
       THEN ParseFailed
       ELSE Parsed(Rfc3339Midnight(FromOrdinal(ord)))

\* excel_serial_to_date (lines 119-123): the day `serial` days after
\* 1899-12-30; OverflowError outside the range of timedelta or of datetime
ExcelSerialToDate(serial) ==
    LET ord == Ordinal(1899, 12, 30) + serial
    IN IF serial < -999999999 \/ serial > 999999999 \/ ord < 1 \/ ord > MaxOrdinal
       THEN ParseFailed
       ELSE Parsed(Rfc3339Midnight(FromOrdinal(ord)))

\* the try block for a date field (lines 139-148)
CoerceDate(v) ==
    IF v.t \in {"int", "float"}
    THEN LET n == IF v.t = "int" THEN Parsed(v) ELSE FloatToInt(v)
         IN IF n.ok THEN ExcelSerialToDate(n.val.n) ELSE ParseFailed
    ELSE IF v.t = "date" THEN Parsed(Rfc3339Midnight(v))
    ELSE LET d == ParseIsoDate(PyStr(v))
         IN IF d.ok THEN Parsed(Rfc3339Midnight(d.val)) ELSE ParseFailed

\* the try block for an int field (line 152): int(float(v))
CoerceInt(v) ==
    LET f == PyFloat(v) IN IF f.ok THEN FloatToInt(f.val) ELSE ParseFailed

\* the try block of one field (lines 137-164)
Coerce(expected, v) ==
    CASE expected = "date" -> CoerceDate(v)
      [] expected = "int" -> CoerceInt(v)
      [] expected = "number" -> PyFloat(v)
      [] OTHER -> Parsed(StrV(PyStr(v)))

\* the except block of one field (lines 166-175)
Fallback(expected, v) ==
    CASE expected = "int" -> IntV(0)
      [] expected = "number" -> FloatV(0)
      [] expected = "date" -> Rfc3339Midnight(DateV(1970, 1, 1))
      [] OTHER -> IF v # NoneV THEN StrV(PyStr(v)) ELSE StrV(<<>>)

\* mutant: the conversion of a field is not guarded, so its exception
\* leaves the function
NormalizeFieldUnguarded(expected, v) ==
    LET c == Coerce(expected, v)
    IN [raised |-> ~c.ok, val |-> c.val]

\* one field: the try block, and the except block when it raised
NormalizeField(expected, v) ==
    LET c == Coerce(expected, v)
    IN [raised |-> FALSE, val |-> IF c.ok THEN c.val ELSE Fallback(expected, v)]

\* mutant: only nulls are skipped
SkipFieldNullOnly(v, k, types) == v = NoneV

\* the fields the loop skips (line 131)
SkipField(v, k, types) == v = NoneV \/ k \notin DOMAIN types

\* the type tag looked up for a kept field (line 135)
ExpectedType(types, k) == IF k \in DOMAIN types THEN types[k] ELSE "untyped"

\* normalize_metadata (lines 126-177)
NormalizeMetadata(doc, class) ==
    LET types == TypeForClass(class)
        kept == {k \in DOMAIN doc : ~SkipField(doc[k], k, types)}
        field(k) == NormalizeField(ExpectedType(types, k), doc[k])
    IN [raised |-> \E k \in kept : field(k).raised,
        out |-> [k \in kept |-> field(k).val]]

\* the values a raw record may hold
NormValues ==
    { NoneV, IntV(1), IntV(45000), IntV(3000000), FloatV(-15), NaNV, InfV,
      StrV(<<"2", ".", "0">>), StrV(<<"-", "2", ".", "7">>), StrV(<<"i", "n", "f">>),
      StrV(<<"a", "b", "c">>),
      StrV(<<"2", "0", "2", "4", "-", "0", "3", "-", "0", "1">>),
      StrV(<<"2", "0", "2", "3", "-", "0", "2", "-", "2", "9">>),
      DateV(2024, 3, 1) }

\* the column names a raw record may hold
NormFields == {"month_year", "sales_vol", "sum_profit", "product_name", "extra"}

\* the collections records are normalized for in the runs
NormClasses == {"sales_vol_staging", "product_cost_staging", "unknown_staging"}

RawRecords ==
    UNION { [K -> NormValues] : K \in {S \in SUBSET NormFields : Cardinality(S) <= MaxFields} }

NormInit ==
    /\ nPc = "idle"
    /\ nDoc = <<>>
    /\ nClass = ""
    /\ nOut = <<>>
    /\ nRaised = FALSE

\* normalize_metadata is called on a raw record
NormCall ==
    /\ nPc = "idle"
    /\ nPc' = "done"
    /\ \E doc \in RawRecords, class \in NormClasses :
          /\ nDoc' = doc
          /\ nClass' = class
          /\ LET r == NormalizeMetadata(doc, class)
             IN /\ nOut' = r.out
                /\ nRaised' = r.raised
    /\ UNCHANGED notNormVars

\* the record is handed on; the next record is normalized from scratch
NormReturn ==
    /\ nPc = "done"
    /\ nPc' = "idle"
    /\ nDoc' = <<>>
    /\ nClass' = ""
    /\ nOut' = <<>>
    /\ nRaised' = FALSE
    /\ UNCHANGED notNormVars

NormNext ==
    \/ NormCall
    \/ NormReturn

-----------------------------------------------------------------------------
(* retrieve_hits and the chat handler as a whole                           *)

\* what embeddings.embed_query may do: return a list or a tuple, return
\* another iterable (converted with list()), return something list()
\* raises on, or raise (provider unreachable)
EmbedOutcomes == {"list", "tuple", "iterable", "noniterable", "raises"}

\* the first try block of retrieve_hits raises (lines 130-136)
EmbeddingFails(outcome) == outcome \in {"noniterable", "raises"}

RetrieveInit ==
    /\ rPc = "idle"
    /\ rEmbed = "none"
    /\ rHits = NoHits

\* retrieve_hits is called and embeds the query; when that raises it
\* returns the empty list at once
RetrieveEmbed ==
    /\ rPc = "idle"
    /\ \E outcome \in EmbedOutcomes :
          /\ rEmbed' = outcome
          /\ IF EmbeddingFails(outcome)
             THEN /\ rPc' = "returned"
                  /\ rHits' = Returned(<<>>)
             ELSE /\ rPc' = "embedded"
                  /\ rHits' = rHits
    /\ UNCHANGED notRetrieveVars

\* retrieve_hits calls http_search_collection (line 139)
RetrieveSearch ==
    /\ rPc = "embedded"
    /\ SearchCall("main")

\* mutant: the RuntimeError of the search is passed on to the caller
HitsAfterSearchUncaught == IF sPc = "raised" THEN NoHits ELSE Returned(sHits.hits)

\* what retrieve_hits returns when the search is over: `hits or []`, and
\* [] when the search raised (lines 140-143)
HitsAfterSearch == IF sPc = "raised" THEN Returned(<<>>) ELSE Returned(sHits.hits)

\* http_search_collection is over and retrieve_hits returns
RetrieveReturn ==
    /\ rPc = "embedded"
    /\ sPc \in {"returned", "raised"}
    /\ rPc' = "returned"
    /\ rHits' = HitsAfterSearch
    /\ UNCHANGED rEmbed
    /\ UNCHANGED notRetrieveVars

RetrieveNext ==
    \/ RetrieveEmbed
    \/ RetrieveSearch
    \/ SearchRespond(SearchResponses)
    \/ RetrieveReturn

\* the questions of the handler runs: a revenue question, a volume
\* question and a question with both keywords, each with a month; a
\* revenue question without date; a date without keyword; no keyword and
\* no date
HandlerQuestions ==
    { <<Word("Revenue"), Word("March"), YearTok(2024)>>,
      <<Word("sales"), Word("volume"), YearMonthTok(2023, 5)>>,
      <<Word("total"), Word("sales"), Word("volume"), YearMonthTok(2023, 5)>>,
      <<Word("total"), Word("sales"), YearMonthTok(2024, 13)>>,
      <<Word("show"), Word("March"), YearTok(2024)>>,
      <<Word("show"), Word("sales")>> }

\* the answers of the store in the handler runs: those with at most one
\* point per response
HandlerSearchResponses == {r \in SearchResponses : Len(r.body.points) <= 1}
HandlerScrollResponses ==
    [n \in 0..MaxRecords |-> {r \in AggResponses[n] : Len(r.body.points) <= 1}]

\* chat receives one of the questions of the handler runs
HandlerRoute ==
    /\ cPc = "idle"
    /\ cPc' = "routed"
    /\ \E q \in HandlerQuestions :
          /\ cQuestion' = q
          /\ LET d == ParseYearMonth(q)
             IN /\ cYear' = d.year
                /\ cMonth' = d.month
                /\ cIntent' = ChatBranch(q, d.year, d.month)
    /\ UNCHANGED notChatVars

\* the revenue branch calls aggregate_sales, the volume branch
\* aggregate_volume, with the date extracted (lines 350, 373)
HandlerAggregate ==
    /\ cPc = "routed"
    /\ cIntent \in {"revenue", "volume"}
    /\ AggCall(IF cIntent = "revenue" THEN "sales" ELSE "volume", cYear.n, cMonth.n)

\* mutant: a failed aggregation falls through to the retrieval path
RetrievalReachedAfterFailure == cIntent = "retrieval" \/ aPc = "failed"

\* the retrieval path is reached only when neither aggregation branch was
\* taken: both branches return on every path (lines 348-391)
RetrievalReached == cIntent = "retrieval"

\* the retrieval path calls retrieve_hits (line 394)
HandlerRetrieve ==
    /\ cPc = "routed"
    /\ RetrievalReached
    /\ RetrieveEmbed

\* the aggregator or retrieve_hits is over; chat words its answer (with the
\* chat model, or with a fixed sentence when that fails) and responds
HandlerRespond ==
    /\ cPc = "routed"
    /\ \/ cIntent \in {"revenue", "volume"} /\ aPc \in {"done", "failed"}
       \/ RetrievalReached /\ rPc = "returned"
    /\ cPc' = "responded"
    /\ UNCHANGED <<cQuestion, cYear, cMonth, cIntent>>
    /\ UNCHANGED notChatVars

HandlerNext ==
    \/ HandlerRoute
    \/ HandlerAggregate
    \/ ScrollRespond(HandlerScrollResponses)
    \/ AggConsume
    \/ HandlerRetrieve
    \/ RetrieveSearch
    \/ SearchRespond(HandlerSearchResponses)
    \/ RetrieveReturn
    \/ HandlerRespond

-----------------------------------------------------------------------------
(* Month boundary helper                                                   *)

SecondsPerDay == 24 * 60 * 60

\* datetime(year, month, day) raises ValueError outside the years 1..9999,
\* the months 1..12 and the days of the month
DatetimeRaises(year, month, day) ==
    \/ year < 1 \/ year > 9999
    \/ month < 1 \/ month > 12
    \/ day < 1 \/ day > DaysInMonth(year, month)

\* a datetime: the ordinal of its day and the seconds since midnight
Midnight(year, month, day) == [day |-> Ordinal(year, month, day), sec |-> 0]

\* dt - timedelta(seconds=1)
OneSecondBefore(dt) ==
    IF dt.sec = 0 THEN [day |-> dt.day - 1, sec |-> SecondsPerDay - 1]
    ELSE [day |-> dt.day, sec |-> dt.sec - 1]

\* dt.isoformat() of a datetime in UTC without microseconds
IsoFormatUtc(dt) ==
    LET day == FromOrdinal(dt.day)
        rest == dt.sec
    IN IsoDate(day) \o <<"T">>
        \o ZeroPad(NatToChars(rest \div 3600), 2) \o <<":">>
        \o ZeroPad(NatToChars((rest % 3600) \div 60), 2) \o <<":">>
        \o ZeroPad(NatToChars(rest % 60), 2)
        \o <<"+", "0", "0", ":", "0", "0">>

\* cs starts with the characters of prefix
StartsWith(cs, prefix) ==
    Len(prefix) <= Len(cs) /\ SubSeq(cs, 1, Len(prefix)) = prefix

RECURSIVE Replace(_, _, _)
\* cs.replace(old, new), old not empty
Replace(cs, old, new) ==
    IF cs = <<>> THEN <<>>
    ELSE IF StartsWith(cs, old)
         THEN new \o Replace(SubSeq(cs, Len(old) + 1, Len(cs)), old, new)
         ELSE <<Head(cs)>> \o Replace(Tail(cs), old, new)

\* .isoformat().replace("+00:00", "Z") (line 167)
IsoZ(dt) == StrV(Replace(IsoFormatUtc(dt), <<"+", "0", "0", ":", "0", "0">>, <<"Z">>))

RangeRaised ==
    [raises |-> TRUE, start |-> NoneV, end |-> NoneV,
     startAt |-> [day |-> 0, sec |-> 0], endAt |-> [day |-> 0, sec |-> 0]]

\* the year of the month after (year, month) (lines 163-166)
NextMonthYear(year, month) == IF month = 12 THEN year + 1 ELSE year

\* the month after month (lines 163-166)
NextMonth(month) == IF month = 12 THEN 1 ELSE month + 1

\* iso_month_range (lines 161-167); startAt and endAt are the two datetimes
\* before formatting
IsoMonthRange(year, month) ==
    IF DatetimeRaises(year, month, 1) THEN RangeRaised
    ELSE IF DatetimeRaises(NextMonthYear(year, month), NextMonth(month), 1) THEN RangeRaised
    ELSE LET start == Midnight(year, month, 1)
             end == OneSecondBefore(Midnight(NextMonthYear(year, month), NextMonth(month), 1))
         IN [raises |-> FALSE, start |-> IsoZ(start), end |-> IsoZ(end),
             startAt |-> start, endAt |-> end]

\* the years and months iso_month_range is called with in the runs: the
\* ends of datetime's range, leap and common years, a century year
RangeYears == {0, 1, 1900, 2000, 2023, 2024, 2025, 2100, 9998, 9999, 10000}
RangeMonths == 0..13

RangeInit ==
    /\ qPc = "idle"
    /\ qYear = 0
    /\ qMonth = 0
    /\ qOut = RangeRaised

RangeCall ==
    /\ qPc = "idle"
    /\ qPc' = "done"
    /\ \E year \in RangeYears, month \in RangeMonths :
          /\ qYear' = year
          /\ qMonth' = month
          /\ qOut' = IsoMonthRange(year, month)
    /\ UNCHANGED notRangeVars

RangeReturn ==
    /\ qPc = "done"
    /\ qPc' = "idle"
    /\ qYear' = 0
    /\ qMonth' = 0
    /\ qOut' = RangeRaised
    /\ UNCHANGED notRangeVars

RangeNext == RangeCall \/ RangeReturn

-----------------------------------------------------------------------------
(* Concurrent requests: the sync endpoints run in the threads of the       *)
(* server's pool, each call with its own local variables                   *)

\* the requests that run at the same time
Procs == {1, 2}

\* most responses to one request of the concurrent runs
ConcPages == MaxRecords - 1

\* mutant: the local variables are shared by all calls (module level)
FrameOfShared(p) == 1

\* where the local variables of the call of request p live: every call has
\* its own (offset at line 172; total_sales, count, bad_rows at 215-217)
FrameOf(p) == p

IdleProc == [pc |-> "idle", kind |-> "none", reqs |-> <<>>, resps |-> <<>>, out |-> NoOutcome]
FreshFrame ==
    [offset |-> ScrollStartOffset, next |-> NoneV, page |-> <<>>,
     count |-> 0, bad |-> 0, total |-> 0]

\* the answers of the store in the concurrent runs: a page of one record
\* with a cursor (a value that is added with cursor 1 or 2, one that is
\* skipped with cursor 1), the empty page, an error status
ConcAdded ==
    DictPoint(IntV(1), AbsentV, MapV([sales |-> StrV(<<"7">>), sales_vol |-> IntV(2)]))
ConcSkipped ==
    DictPoint(IntV(2), AbsentV,
              MapV([sales |-> StrV(<<"b", "a", "d">>), sales_vol |-> NoneV]))
ConcPage(v, pt) ==
    [status |-> HTTP_OK,
     body |-> Page([kind |-> "nested", cur |-> WithCursor("rNextPageOffset", v)], <<pt>>)]
ConcLastResponses ==
    { [status |-> HTTP_OK, body |-> Page([kind |-> "nested", cur |-> NoCursor], <<>>)],
      [status |-> 500, body |-> ScrollErrorBody] }
ConcMoreResponses ==
    { ConcPage(IntV(1), ConcAdded), ConcPage(IntV(2), ConcAdded),
      ConcPage(IntV(1), ConcSkipped) }
ConcSearchResponses ==
    { [status |-> HTTP_OK, body |-> [kind |-> "nested", points |-> <<pt>>]] :
        pt \in {DictPoint(IntV(1), IntV(9), SamplePayload), DictPoint(IntV(2), IntV(5), NoneV)} }
    \cup { [status |-> 500, body |-> ErrorBody], TransportFailure }

ConcInit ==
    /\ kProc = [p \in Procs |-> IdleProc]
    /\ kFrame = [p \in Procs |-> FreshFrame]

\* a request arrives: an aggregation (with a valid month) initializes its
\* locals, a search sends its first request
ConcCall(p) ==
    /\ kProc[p].pc = "idle"
    /\ \E kind \in {"sales", "volume", "search"} :
          IF kind = "search"
          THEN /\ kProc' = [kProc EXCEPT ![p] =
                              [pc |-> "waiting", kind |-> kind, reqs |-> <<Endpoints[1]>>,
                               resps |-> <<>>, out |-> NoHits]]
               /\ kFrame' = kFrame
          ELSE /\ kProc' = [kProc EXCEPT ![p] =
                              [pc |-> "sending", kind |-> kind, reqs |-> <<>>,
                               resps |-> <<>>, out |-> NoOutcome]]
               /\ kFrame' = [kFrame EXCEPT ![FrameOf(p)] = FreshFrame]
    /\ UNCHANGED notConcVars

\* the generator builds the body with its offset and posts it (173-177)
ConcSend(p) ==
    /\ kProc[p].pc = "sending"
    /\ kProc' = [kProc EXCEPT ![p].pc = "waiting",
                              ![p].reqs = Append(@, kFrame[FrameOf(p)].offset)]
    /\ kFrame' = kFrame
    /\ UNCHANGED notConcVars

\* the scroll request of p is answered (177-194, 236-243)
ConcRespond(p) ==
    /\ kProc[p].pc = "waiting"
    /\ kProc[p].kind # "search"
    /\ \E r \in ConcLastResponses
              \cup (IF Len(kProc[p].resps) < ConcPages THEN ConcMoreResponses ELSE {}) :
          LET f == kFrame[FrameOf(p)]
              e == ScrollPoints(r.body)
          IN IF ScrollException(r) # "none"
             THEN /\ kProc' = [kProc EXCEPT ![p].pc = "failed",
                                            ![p].resps = Append(@, r),
                                            ![p].out = Failure(FailureStatus(ScrollException(r)))]
                  /\ kFrame' = kFrame
             ELSE IF e.points = <<>>
             THEN /\ kProc' = [kProc EXCEPT ![p].pc = "done",
                                            ![p].resps = Append(@, r),
                                            ![p].out = AggregationResult(f.count, f.bad, f.total)]
                  /\ kFrame' = kFrame
             ELSE /\ kProc' = [kProc EXCEPT ![p].pc = "yielding",
                                            ![p].resps = Append(@, r)]
                  /\ kFrame' = [kFrame EXCEPT ![FrameOf(p)].page = PageToYield(e.points),
                                              ![FrameOf(p)].next = NextOffset(r.body)]
    /\ UNCHANGED notConcVars

\* one payload is yielded to the loop of p; after the last one of the page
\* the generator stops or sets its offset for the next request (193-201,
\* 220-235)
ConcConsume(p) ==
    /\ kProc[p].pc = "yielding"
    /\ kFrame[FrameOf(p)].page # <<>>
    /\ LET f == kFrame[FrameOf(p)]
           step == AggStep(kProc[p].kind, YieldOf(Head(f.page)))
           rest == Tail(f.page)
           count == IF step.act = "add" THEN f.count + 1 ELSE f.count
           bad == IF step.act = "skip" THEN f.bad + 1 ELSE f.bad
           total == IF step.act = "add" THEN f.total + step.amount ELSE f.total
           stops == rest = <<>> /\ ScrollStops(f.next)
           goesOn == rest = <<>> /\ ~ScrollStops(f.next)
       IN /\ kFrame' = [kFrame EXCEPT ![FrameOf(p)] =
                [offset |-> IF step.act # "raise" /\ goesOn
                            THEN OffsetForNextRequest(f.next) ELSE f.offset,
                 next |-> f.next, page |-> rest,
                 count |-> count, bad |-> bad, total |-> total]]
          /\ kProc' = [kProc EXCEPT
                ![p].pc = IF step.act = "raise" THEN "failed"
                          ELSE IF stops THEN "done"
                          ELSE IF goesOn THEN "sending"
                          ELSE "yielding",
                ![p].out = IF step.act = "raise" THEN Failure(FailureStatus("Exception"))
                           ELSE IF stops THEN AggregationResult(count, bad, total)
                           ELSE @]
    /\ UNCHANGED notConcVars

\* the search request of p is answered (79-126)
ConcSearchRespond(p) ==
    /\ kProc[p].pc = "waiting"
    /\ kProc[p].kind = "search"
    /\ \E r \in ConcSearchResponses :
          LET log == kProc[p].reqs
              a == SearchAttempt("main", log[Len(log)], r)
          IN kProc' = [kProc EXCEPT
                ![p].resps = Append(@, r),
                ![p].pc = IF a.ok THEN "returned"
                          ELSE IF Len(log) < Len(Endpoints) THEN "waiting"
                          ELSE "raised",
                ![p].out = IF a.ok THEN Returned(a.hits) ELSE @,
                ![p].reqs = IF ~a.ok /\ Len(log) < Len(Endpoints)
                            THEN Append(@, Endpoints[Len(log) + 1]) ELSE @]
    /\ kFrame' = kFrame
    /\ UNCHANGED notConcVars

ConcNext ==
    \E p \in Procs :
        \/ ConcCall(p)
        \/ ConcSend(p)
        \/ ConcRespond(p)
        \/ ConcConsume(p)
        \/ ConcSearchRespond(p)

-----------------------------------------------------------------------------
(* Payload repair script (scripts/fix_qdrant_payloads.py):                 *)
(* parse_and_normalize                                                     *)

\* out[key] = v and out.pop(key, None) on the function that holds a dict
DictSet(m, key, v) == [k \in DOMAIN m \cup {key} |-> IF k = key THEN v ELSE m[k]]
DictPop(m, key) == [k \in DOMAIN m \ {key} |-> m[k]]

\* a datetime as far as parse_and_normalize keeps it: its date and the
\* characters of its UTC offset (none for a naive datetime)
DatetimeOf(date, offset) == [date |-> date, offset |-> offset]

\* datetime.strptime(s, "%Y-%m") for a text of seven characters with "-"
\* in the fifth place (line 178)
StrptimeYearMonth(cs) ==
    LET ys == SubSeq(cs, 1, 4)
        ms == SubSeq(cs, 6, 7)
    IN IF ~IsDigits(ys) \/ ~IsDigits(ms) THEN ParseFailed
       ELSE IF DigitsVal(ys) < 1 \/ DigitsVal(ms) \notin 1..12 THEN ParseFailed
       ELSE Parsed(DatetimeOf(DateV(DigitsVal(ys), DigitsVal(ms), 1), <<>>))

\* HH:MM:SS of a time of day
ClockValid(cs) ==
    /\ Len(cs) = 8 /\ cs[3] = ":" /\ cs[6] = ":"
    /\ IsDigits(SubSeq(cs, 1, 2)) /\ IsDigits(SubSeq(cs, 4, 5)) /\ IsDigits(SubSeq(cs, 7, 8))
    /\ DigitsVal(SubSeq(cs, 1, 2)) < 24
    /\ DigitsVal(SubSeq(cs, 4, 5)) < 60
    /\ DigitsVal(SubSeq(cs, 7, 8)) < 60

\* +HH:MM or -HH:MM of a UTC offset
OffsetValid(cs) ==
    /\ Len(cs) = 6 /\ cs[1] \in {"+", "-"} /\ cs[4] = ":"
    /\ IsDigits(SubSeq(cs, 2, 3)) /\ IsDigits(SubSeq(cs, 5, 6))
    /\ DigitsVal(SubSeq(cs, 2, 3)) < 24
    /\ DigitsVal(SubSeq(cs, 5, 6)) < 60

\* the offset as isoformat() writes it: a zero offset is +00:00
OffsetText(cs) ==
    IF DigitsVal(SubSeq(cs, 2, 3)) = 0 /\ DigitsVal(SubSeq(cs, 5, 6)) = 0
    THEN <<"+", "0", "0", ":", "0", "0">> ELSE cs

\* datetime.fromisoformat(s) (line 180) for the forms YYYY-MM-DD,
\* YYYY-MM-DD?HH:MM:SS and YYYY-MM-DD?HH:MM:SS+HH:MM; the payloads of the
\* model hold no text of another accepted form (compact dates, fractions
\* of a second)
FromIsoformat(cs) ==
    LET d == IF Len(cs) >= 10 THEN ParseIsoDate(SubSeq(cs, 1, 10)) ELSE ParseFailed
    IN IF ~d.ok THEN ParseFailed
       ELSE IF Len(cs) = 10 THEN Parsed(DatetimeOf(d.val, <<>>))
       ELSE IF Len(cs) = 19 /\ ClockValid(SubSeq(cs, 12, 19))
            THEN Parsed(DatetimeOf(d.val, <<>>))
       ELSE IF Len(cs) = 25 /\ ClockValid(SubSeq(cs, 12, 19))
                /\ OffsetValid(SubSeq(cs, 20, 25))
            THEN Parsed(DatetimeOf(d.val, OffsetText(SubSeq(cs, 20, 25))))
       ELSE ParseFailed

\* str(v) of a value that may be a bool
PyStrOf(v) ==
    IF v.t = "bool" THEN (IF v.b THEN <<"T", "r", "u", "e">> ELSE <<"F", "a", "l", "s", "e">>)
    ELSE PyStr(v)

\* the datetime of a month_year value (lines 177-180)
ParseMonthYearValue(v) ==
    IF v.t = "str" /\ Len(v.s) = 7 /\ v.s[5] = "-"
    THEN StrptimeYearMonth(v.s)
    ELSE FromIsoformat(Replace(PyStrOf(v), <<"Z">>, <<"+", "0", "0", ":", "0", "0">>))

\* dt.replace(day=1, hour=0, ...).isoformat().replace("+00:00", "Z")
\* (line 181)
FirstOfMonthText(dt) ==
    StrV(Replace(IsoDate(DateV(dt.date.y, dt.date.mo, 1))
                    \o <<"T", "0", "0", ":", "0", "0", ":", "0", "0">> \o dt.offset,
                 <<"+", "0", "0", ":", "0", "0">>, <<"Z">>))

\* the month_year part of parse_and_normalize (lines 174-187)
NormalizeMonthYear(p, out) ==
    LET month_year == PyOr(PayloadGet(p, "month_year"), PayloadGet(p, "date"))
    IN IF Truthy(month_year)
       THEN LET dt == ParseMonthYearValue(month_year)
            IN IF dt.ok
               THEN DictPop(DictPop(DictSet(out, "month_year", FirstOfMonthText(dt.val)),
                                    "month_year_missing"),
                            "month_year_normalization_error")
               ELSE DictSet(out, "month_year_normalization_error", BoolV(TRUE))
       ELSE DictSet(out, "month_year_missing", BoolV(TRUE))

\* the value handed to float(): sales.replace(",", "").strip() for a text
\* (lines 194-197)
SalesClean(v) == IF v.t = "str" THEN StrV(StripSpaces(RemoveCommas(v.s))) ELSE v

\* the sales part of parse_and_normalize (lines 189-205)
NormalizeSales(p, out) ==
    LET sales == PyOr(PyOr(PayloadGet(p, "sales"), PayloadGet(p, "sales_amount")),
                      PayloadGet(p, "sales_vol"))
    IN IF sales = NoneV THEN DictSet(out, "sales_missing", BoolV(TRUE))
       ELSE LET f == PyFloat(SalesClean(sales))
            IN IF ~f.ok THEN DictSet(out, "sales_normalization_error", BoolV(TRUE))
               ELSE IF IsFinite(f.val)
               THEN DictPop(DictSet(out, "sales", f.val), "sales_normalization_error")
               ELSE DictSet(out, "sales_normalization_error", BoolV(TRUE))

\* parse_and_normalize (lines 172-206) on a dict payload
ParseAndNormalize(p) == MapV(NormalizeSales(p, NormalizeMonthYear(p, p.m)))

\* a dict with the given fields, without those that are absent
DictOf(fields) == MapV([k \in {f \in DOMAIN fields : fields[f] # AbsentV} |-> fields[k]])

\* the payloads given to parse_and_normalize: month_year is missing, null,
\* a year-month, a date, a normalized timestamp, a month 13, a number;
\* sales is missing, null, 0, a text, a float
RepairMonthYears ==
    { AbsentV, NoneV, StrV(<<"2", "0", "2", "4", "-", "0", "3">>), StrV(<<"2", "0", "2", "4", "-", "0", "3", "-", "1", "5">>),
      StrV(<<"2", "0", "2", "4", "-", "0", "3", "-", "0", "1", "T", "0", "0", ":", "0", "0", ":", "0", "0", "Z">>), StrV(<<"2", "0", "2", "4", "-", "1", "3">>),
      IntV(45000) }
RepairDates == { AbsentV, StrV(<<"2", "0", "2", "3", "-", "1", "2", "-", "3", "1", "T", "1", "0", ":", "3", "0", ":", "0", "0", "+", "0", "7", ":", "0", "0">>) }
RepairSales ==
    { AbsentV, NoneV, IntV(0), StrV(<<"0">>), StrV(<<"1", ",", "2", "0", "0">>),
      StrV(<<"b", "a", "d">>), FloatV(75), StrV(<<"i", "n", "f">>) }
RepairPayloads ==
    { DictOf([month_year |-> my, date |-> d, sales |-> sv, sales_amount |-> sa,
              sales_vol |-> vol]) :
        my \in RepairMonthYears, d \in RepairDates, sv \in RepairSales,
        sa \in {AbsentV, IntV(5)}, vol \in {AbsentV, StrV(<<" ", "3", " ">>)} }

IdemInit ==
    /\ iPc = "idle"
    /\ iIn = NoneV
    /\ iOnce = NoneV
    /\ iTwice = NoneV

\* the payload of a scrolled point is normalized
IdemNormalize ==
    /\ iPc = "idle"
    /\ \E p \in RepairPayloads :
          /\ iIn' = p
          /\ iOnce' = ParseAndNormalize(p)
    /\ iPc' = "once"
    /\ iTwice' = NoneV
    /\ UNCHANGED notIdemVars

\* the normalized payload, as a later run reads it from the store, is
\* normalized again
IdemNormalizeAgain ==
    /\ iPc = "once"
    /\ iTwice' = ParseAndNormalize(iOnce)
    /\ iPc' = "twice"
    /\ UNCHANGED <<iIn, iOnce>>
    /\ UNCHANGED notIdemVars

IdemReturn ==
    /\ iPc = "twice"
    /\ iPc' = "idle"
    /\ iIn' = NoneV
    /\ iOnce' = NoneV
    /\ iTwice' = NoneV
    /\ UNCHANGED notIdemVars

IdemNext == IdemNormalize \/ IdemNormalizeAgain \/ IdemReturn

-----------------------------------------------------------------------------
(* Payload repair script: fix_payloads_main                                *)

\* the number a value compares as: 1 == 1.0 == True in Python
IsNumber(v) == v.t \in {"int", "bool"} \/ (v.t = "float" /\ v.k = "fin")
NumberOf(v) ==
    CASE v.t = "int" -> v.n * 10
      [] v.t = "bool" -> (IF v.b THEN 10 ELSE 0)
      [] OTHER -> v.m

RECURSIVE PyEqual(_, _)
\* a == b of Python
PyEqual(a, b) ==
    IF IsNumber(a) /\ IsNumber(b) THEN NumberOf(a) = NumberOf(b)
    ELSE IF a.t = "map" /\ b.t = "map"
    THEN DOMAIN a.m = DOMAIN b.m /\ \A k \in DOMAIN a.m : PyEqual(a.m[k], b.m[k])
    ELSE a = b

\* a point as the scroll yields it: a dict with the keys id, payload and
\* vector (AbsentV for a key it does not hold)
RepairPoint(id, payload, vector) ==
    [isdict |-> TRUE, id |-> id, payload |-> payload, vector |-> vector]

\* what safe_parse_point returns
Parse3(pid, payload, vector) == [pid |-> pid, payload |-> payload, vector |-> vector]

\* safe_parse_point (lines 109-136) for None and for a dict without the
\* keys vectors, payload_vector and point; an item without payload is
\* taken as the payload itself
SafeParsePoint(item) ==
    IF item = NoneV THEN Parse3(NoneV, NoneV, NoneV)
    ELSE IF item.id # AbsentV /\ item.payload # AbsentV
    THEN Parse3(item.id, PyOr(item.payload, EmptyMap),
                PyOr(PyOr(GetOrNone(item.vector), NoneV), NoneV))
    ELSE IF item.payload # AbsentV
    THEN Parse3(GetOrNone(item.id), PyOr(item.payload, EmptyMap), GetOrNone(item.vector))
    ELSE Parse3(GetOrNone(item.id),
                DictOf([id |-> item.id, vector |-> item.vector]),
                GetOrNone(item.vector))

\* most points one upsert batch holds in the runs of the model
MaxBatch == 2

SomeVector == ListV(<<FloatV(1)>>)

\* does upsert_points send a PUT for the batch: not for an empty one
\* (lines 64-65)
BatchSent(batch) == batch # <<>>

\* mutant: the batch is sent in a dry run too
UpsertCalledAlways(dry) == TRUE

\* is upsert_points called (lines 267, 284)
UpsertCalled(dry) == ~dry

\* mutant: the batch is flushed only when it holds more than batch_size
FlushDueLate(toUpsert, batch) == Len(toUpsert) > batch

\* is the batch flushed after this point (line 262)
FlushDue(toUpsert, batch) == Len(toUpsert) >= batch

\* the limit ends the loop after a flush (line 274)
LimitReached(limit, changed) == Truthy(limit) /\ changed >= limit.n

FixCall ==
    /\ fPc = "idle"
    /\ fPc' = "scanning"
    /\ fDry' \in BOOLEAN
    /\ fBatch' \in 1..MaxBatch
    /\ fLimit' \in {NoneV, IntV(0), IntV(1), IntV(2)}
    /\ fScanned' = <<>>
    /\ fToUpsert' = <<>>
    /\ fChanged' = 0
    /\ fSkipped' = 0
    /\ fFetches' = <<>>
    /\ fSent' = <<>>
    /\ UNCHANGED notFixVars

\* the points the scroll may yield as its next point: it cannot be read,
\* or it is a dict with or without id and vector whose payload is changed
\* by the normalization, is left as it is, or is missing
NextPoints(n) ==
    { NoneV,
      RepairPoint(IntV(n), MapV([sales |-> StrV(<<"7">>)]), SomeVector),
      RepairPoint(AbsentV, MapV([sales |-> StrV(<<"7">>)]), SomeVector),
      RepairPoint(IntV(n), MapV([sales |-> StrV(<<"7">>)]), AbsentV),
      RepairPoint(IntV(n),
                  MapV([sales |-> IntV(7),
                        month_year |-> StrV(<<"2", "0", "2", "4", "-", "0", "3", "-", "0", "1", "T", "0", "0", ":", "0", "0", ":", "0", "0", "Z">>)]),
                  SomeVector),
      RepairPoint(IntV(n), AbsentV, SomeVector) }

\* the vector the fallback request finds for an id (lines 241-255): the
\* vector, nothing, or the request fails
FetchOutcomes == {"vector", "nothing", "raises"}
UpsertOutcomes == {"ok", "raises"}

\* what the loop body finds on a point: is the point changed, and is
\* its vector asked for (lines 223-240)
Examined(raw) ==
    LET parsed == SafeParsePoint(raw)
        normalized == IF parsed.payload = NoneV THEN NoneV
                      ELSE ParseAndNormalize(parsed.payload)
        differs == parsed.payload # NoneV /\ ~PyEqual(normalized, parsed.payload)
    IN [pid |-> parsed.pid, payload |-> parsed.payload, vector |-> parsed.vector,
        normalized |-> normalized, differs |-> differs,
        fetched |-> differs /\ parsed.pid # NoneV /\ parsed.vector = NoneV]

\* the rest of the loop body, with the vector the point has or the fetch
\* found (lines 256-276)
FixScanWith(raw, e, vector) ==
    LET appended == e.differs /\ e.pid # NoneV /\ vector # NoneV
        skipped == e.payload = NoneV \/ (e.differs /\ ~appended)
        toUpsert == IF appended
                    THEN Append(fToUpsert, [id |-> e.pid, vector |-> vector,
                                            payload |-> e.normalized])
                    ELSE fToUpsert
        changed == IF e.differs THEN fChanged + 1 ELSE fChanged
        flush == ~skipped /\ FlushDue(toUpsert, fBatch)
        sends == flush /\ UpsertCalled(fDry) /\ BatchSent(toUpsert)
    IN /\ fScanned' = Append(fScanned, raw)
       /\ fChanged' = changed
       /\ fSkipped' = IF skipped THEN fSkipped + 1 ELSE fSkipped
       /\ fFetches' = IF e.fetched THEN Append(fFetches, e.pid) ELSE fFetches
       /\ fSent' = IF sends THEN Append(fSent, toUpsert) ELSE fSent
       /\ \E upsert \in IF sends THEN UpsertOutcomes ELSE {"ok"} :
             IF sends /\ upsert = "raises"
             THEN /\ fPc' = "failed"
                  /\ fToUpsert' = toUpsert
             ELSE /\ fToUpsert' = IF flush THEN <<>> ELSE toUpsert
                  /\ fPc' = IF flush /\ LimitReached(fLimit, changed)
                            THEN "broke" ELSE "scanning"

\* one pass of the loop body on the next scrolled point (lines 220-276)
FixScan ==
    /\ fPc = "scanning"
    /\ Len(fScanned) < MaxRecords
    /\ \E raw \in NextPoints(Len(fScanned) + 1) :
          LET e == Examined(raw)
          IN IF e.fetched
             THEN \E fetch \in FetchOutcomes :
                     FixScanWith(raw, e, IF fetch = "vector" THEN SomeVector ELSE NoneV)
             ELSE FixScanWith(raw, e, e.vector)
    /\ UNCHANGED <<fDry, fBatch, fLimit>>
    /\ UNCHANGED notFixVars

\* the scroll request fails: the exception leaves fix_payloads_main
FixScrollFails ==
    /\ fPc = "scanning"
    /\ Len(fScanned) < MaxRecords
    /\ fPc' = "failed"
    /\ UNCHANGED <<fDry, fBatch, fLimit, fScanned, fToUpsert, fChanged, fSkipped,
                   fFetches, fSent>>
    /\ UNCHANGED notFixVars

\* to_upsert[: max(0, limit - changed)] (line 279)
Truncated(toUpsert, limit, changed) ==
    SubSeq(toUpsert, 1, IF limit.n - changed > 0 THEN limit.n - changed ELSE 0)

\* the batch of the final upsert (lines 277-279): none when the list is
\* empty or the limit is reached
FinalBatch(toUpsert, limit, changed) ==
    IF toUpsert # <<>> /\ (~Truthy(limit) \/ changed < limit.n)
    THEN (IF Truthy(limit) /\ changed + Len(toUpsert) > limit.n
          THEN Truncated(toUpsert, limit, changed) ELSE toUpsert)
    ELSE <<>>

\* the loop is over (the scroll has no more points, or the limit ended
\* it): the rest of the changes is upserted (lines 277-289)
FixFinish ==
    /\ fPc \in {"scanning", "broke"}
    /\ \E upsert \in UpsertOutcomes :
          LET final == FinalBatch(fToUpsert, fLimit, fChanged)
              sends == UpsertCalled(fDry) /\ BatchSent(final)
          IN /\ fSent' = IF sends THEN Append(fSent, final) ELSE fSent
             /\ fToUpsert' = IF fToUpsert # <<>> /\ (~Truthy(fLimit) \/ fChanged < fLimit.n)
                             THEN final ELSE fToUpsert
             /\ fPc' = IF sends /\ upsert = "raises" THEN "failed" ELSE "done"
    /\ UNCHANGED <<fDry, fBatch, fLimit, fScanned, fChanged, fSkipped, fFetches>>
    /\ UNCHANGED notFixVars

\* the run is over; the next run starts from new locals
FixReturn ==
    /\ fPc \in {"done", "failed"}
    /\ fPc' = "idle"
    /\ fDry' = TRUE
    /\ fBatch' = 1
    /\ fLimit' = NoneV
    /\ fScanned' = <<>>
    /\ fToUpsert' = <<>>
    /\ fChanged' = 0
    /\ fSkipped' = 0
    /\ fFetches' = <<>>
    /\ fSent' = <<>>
    /\ UNCHANGED notFixVars

FixNext == FixCall \/ FixScan \/ FixScrollFails \/ FixFinish \/ FixReturn

-----------------------------------------------------------------------------
(* Payload repair script: sanitize_payload and upsert_points               *)

\* a value json.dumps cannot encode and that has no isoformat, a set for
\* one; r is what str() gives for it
ObjV(r) == [t |-> "obj", r |-> r]

RECURSIVE SanitizeValue(_)
\* sanitize_value (lines 26-55), numpy values aside: a value with
\* isoformat becomes that text, a non-finite float null, lists, tuples and
\* dicts are sanitized item by item, any other object becomes str(v)
SanitizeValue(v) ==
    CASE v.t = "date" -> StrV(IsoDate(v))
      [] v.t = "float" -> (IF IsFinite(v) THEN v ELSE NoneV)
      [] v.t \in {"str", "int", "bool", "none"} -> v
      [] v.t = "list" -> ListV([i \in 1..Len(v.l) |-> SanitizeValue(v.l[i])])
      [] v.t = "map" -> MapV([k \in DOMAIN v.m |-> SanitizeValue(v.m[k])])
      [] OTHER -> StrV(v.r)

\* sanitize_payload (lines 57-61) on a dict with text keys
SanitizePayload(payload) ==
    MapV([k \in DOMAIN payload.m |-> SanitizeValue(payload.m[k])])

RECURSIVE JsonSerializable(_)
\* is_json_serializable (lines 19-24): json.dumps encodes text, numbers
\* (non-finite floats too), booleans, null, lists and dicts of these
JsonSerializable(v) ==
    CASE v.t \in {"str", "int", "bool", "none", "float"} -> TRUE
      [] v.t = "list" -> \A i \in 1..Len(v.l) : JsonSerializable(v.l[i])
      [] v.t = "map" -> \A k \in DOMAIN v.m : JsonSerializable(v.m[k])
      [] OTHER -> FALSE

\* payload = p.get("payload", {}) or {} (line 69)
PayloadOf(p) == PyOr(GetOrDefault(p.payload, EmptyMap), EmptyMap)

\* does the validation of one point raise ValueError (lines 68-82)
PointRejected(p) ==
    \/ GetOrNone(p.id) = NoneV
    \/ p.id.t \notin {"int", "str", "bool"}
    \/ PayloadOf(p).t # "map"
    \/ ~JsonSerializable(SanitizePayload(PayloadOf(p)))
    \/ GetOrNone(p.vector) = NoneV

\* the point that is sent for a valid point (line 83)
SanitizedPoint(p) ==
    [id |-> p.id, vector |-> p.vector, payload |-> SanitizePayload(PayloadOf(p))]

\* the response to a PUT: a status and a body that is JSON or not; status
\* 0 stands for an exception of requests.put
PutFailed == [status |-> 0, json |-> FALSE]
PutResponses ==
    { [status |-> st, json |-> j] : st \in {HTTP_OK, 400, 500}, j \in BOOLEAN }
    \cup {PutFailed}

\* upsert_points takes the PUT as done (lines 89, 98)
PutAccepted(r) == r # PutFailed /\ r.status < 400

\* the points given to upsert_points: valid points whose payloads hold
\* non-finite floats (nested too), a set, a date; points without id,
\* without vector, with a payload that is a list (empty or not) or null
UpsertPointSet ==
    { [id |-> IntV(1), vector |-> SomeVector,
       payload |-> MapV([a |-> NaNV,
                         b |-> ListV(<<InfV, MapV([c |-> NegInfV,
                                                   d |-> ObjV(<<"{", "1", "}">>)])>>),
                         e |-> FloatV(25)])],
      [id |-> StrV(<<"u">>), vector |-> SomeVector,
       payload |-> MapV([when |-> DateV(2024, 3, 15), n |-> IntV(3)])],
      [id |-> AbsentV, vector |-> SomeVector, payload |-> EmptyMap],
      [id |-> IntV(2), vector |-> AbsentV, payload |-> EmptyMap],
      [id |-> IntV(3), vector |-> SomeVector, payload |-> ListV(<<IntV(1)>>)],
      [id |-> IntV(4), vector |-> SomeVector, payload |-> ListV(<<>>)],
      [id |-> IntV(5), vector |-> SomeVector, payload |-> NoneV] }

\* upsert_points is called: no points, a point that is rejected, or the
\* batch PUT is sent (lines 63-88)
UpsertCall ==
    /\ uPc = "idle"
    /\ \E points \in SeqsUpTo(UpsertPointSet, MaxPoints) :
          /\ uPoints' = points
          /\ IF points = <<>>
             THEN uPc' = "returned" /\ uReqs' = <<>>
             ELSE IF \E i \in 1..Len(points) : PointRejected(points[i])
             THEN uPc' = "raised" /\ uReqs' = <<>>
             ELSE /\ uPc' = "batch"
                  /\ uReqs' = <<[i \in 1..Len(points) |-> SanitizedPoint(points[i])]>>
    /\ uResps' = <<>>
    /\ UNCHANGED notUpsertVars

\* mutant: when every point of the retry was accepted the call returns
AfterRetryReturns(batchResponse) == "returned"

\* after the retry loop: r.raise_for_status() on the batch response, which
\* has status 400 (line 107)
AfterRetry(batchResponse) == IF RaiseForStatus(batchResponse) THEN "raised" ELSE "returned"

\* the batch PUT is answered (lines 88-107)
UpsertBatchRespond ==
    /\ uPc = "batch"
    /\ \E r \in PutResponses :
          /\ uResps' = Append(uResps, r)
          /\ IF PutAccepted(r)
             THEN /\ uPc' = IF r.json THEN "returned" ELSE "raised"
                  /\ uReqs' = uReqs
             ELSE IF r # PutFailed /\ r.status = 400
             THEN /\ uPc' = "retry"
                  /\ uReqs' = Append(uReqs, <<uReqs[1][1]>>)
             ELSE /\ uPc' = "raised"
                  /\ uReqs' = uReqs
    /\ UNCHANGED uPoints
    /\ UNCHANGED notUpsertVars

\* the PUT of one point of the retry is answered (lines 95-107)
UpsertPointRespond ==
    /\ uPc = "retry"
    /\ \E r \in PutResponses :
          LET sent == Len(uReqs) - 1
          IN /\ uResps' = Append(uResps, r)
             /\ IF ~PutAccepted(r)
                THEN uPc' = "raised" /\ uReqs' = uReqs
                ELSE IF sent < Len(uReqs[1])
                THEN /\ uPc' = "retry"
                     /\ uReqs' = Append(uReqs, <<uReqs[1][sent + 1]>>)
                ELSE /\ uPc' = AfterRetry(uResps[1])
                     /\ uReqs' = uReqs
    /\ UNCHANGED uPoints
    /\ UNCHANGED notUpsertVars

UpsertReturn ==
    /\ uPc \in {"returned", "raised"}
    /\ uPc' = "idle"
    /\ uPoints' = <<>>
    /\ uReqs' = <<>>
    /\ uResps' = <<>>
    /\ UNCHANGED notUpsertVars

UpsertNext == UpsertCall \/ UpsertBatchRespond \/ UpsertPointRespond \/ UpsertReturn

FixInit ==
    /\ fPc = "idle"
    /\ fDry = TRUE
    /\ fBatch = 1
    /\ fLimit = NoneV
    /\ fScanned = <<>>
    /\ fToUpsert = <<>>
    /\ fChanged = 0
    /\ fSkipped = 0
    /\ fFetches = <<>>
    /\ fSent = <<>>

UpsertInit ==
    /\ uPc = "idle"
    /\ uPoints = <<>>
    /\ uReqs = <<>>
    /\ uResps = <<>>

Init ==
    /\ SearchInit /\ AggInit /\ ChatInit /\ NormInit /\ RetrieveInit /\ RangeInit
    /\ ConcInit /\ IdemInit /\ FixInit /\ UpsertInit

SpecConc == Init /\ [][ConcNext]_vars
SpecIdem == Init /\ [][IdemNext]_vars
SpecFix == Init /\ [][FixNext]_vars
SpecUpsert == Init /\ [][UpsertNext]_vars

SpecRange == Init /\ [][RangeNext]_vars

SpecRetrieve == Init /\ [][RetrieveNext]_vars

SpecHandler == Init /\ [][HandlerNext]_vars

SpecNorm == Init /\ [][NormNext]_vars

SpecChat == Init /\ [][ChatNext]_vars

SpecSearch == Init /\ [][SearchNext]_vars

ScrollNext ==
    \/ AggCall("sales", 2024, 3)
    \/ ScrollRespond(ScrollResponses)
    \/ AggConsume
    \/ AggReturn

SpecScroll == Init /\ [][ScrollNext]_vars

AggNext ==
    \/ \E kind \in {"sales", "volume"}, year \in {0, 2024}, month \in {0, 1, 12, 13} :
            AggCall(kind, year, month)
    \/ ScrollRespond(AggResponses)
    \/ AggConsume

SpecAgg == Init /\ [][AggNext]_vars

\* a request that did not succeed: no response at all (exception, timeout)
\* or a status outside 2xx
RequestFailed(r) == r = TransportFailure \/ r.status < 200 \/ r.status > 299

\* C1: when the first (/points/search) request fails, a request to
\* /points/query has been made before the call fails; when the second fails
\* too, the call raises RuntimeError and returns no hit list.
C1_FallbackThenRaise ==
    /\ (Len(sResps) >= 1 /\ RequestFailed(sResps[1]))
          => (Len(sLog) = 2 /\ sLog[1] = "search" /\ sLog[2] = "query")
    /\ sPc = "raised" => (sLog = <<"search", "query">> /\ Len(sResps) = 2)
    /\ (Len(sResps) = 2 /\ RequestFailed(sResps[1]) /\ RequestFailed(sResps[2]))
          => (sPc = "raised" /\ sHits = NoHits)

\* both endpoints failed, in either copy of the shim, and the call raised
C1_Witness ==
    /\ sPc = "raised"
    /\ sVariant = "v4"
    /\ sResps = <<[status |-> 404, body |-> ErrorBody], TransportFailure>>

\* the id, score and payload a point has: none where the point has no such
\* field, and the empty map where it has no payload
PointField(p, v) == IF p.isdict /\ v # AbsentV THEN v ELSE NoneV
PointPayload(p) == IF p.isdict /\ p.payload.t = "map" THEN p.payload ELSE EmptyMap

\* C8: the hit list of main.py holds one hit per point of the response that
\* succeeded (flat or nested envelope), in the response's order, each with
\* the point's id, score and payload.
C8_HitsFollowResponse ==
    (sPc = "returned" /\ sVariant = "main"
        /\ sResps[Len(sResps)].body.kind \in {"nested", "flat"})
    => LET ps == sResps[Len(sResps)].body.points
           hs == sHits.hits
       IN /\ sHits.returned
          /\ Len(hs) = Len(ps)
          /\ \A i \in 1..Len(ps) :
                /\ hs[i].id = PointField(ps[i], ps[i].id)
                /\ hs[i].score = PointField(ps[i], ps[i].score)
                /\ hs[i].payload = PointPayload(ps[i])

\* the modern endpoint answered with two different points after the legacy
\* endpoint failed
C8_Witness ==
    /\ sPc = "returned"
    /\ sVariant = "main"
    /\ Len(sResps) = 2
    /\ sResps[2].body.kind = "nested"
    /\ Len(sResps[2].body.points) = 2
    /\ sResps[2].body.points[1] # sResps[2].body.points[2]
    /\ Len(sHits.hits) = 2

-----------------------------------------------------------------------------
(* Scroll pagination: claims                                               *)

\* the payload of a stored record: its payload map, the empty map where the
\* record has none
RecordPayload(p) == IF p.isdict /\ p.payload # AbsentV THEN p.payload ELSE EmptyMap

\* a response that names no next page: no cursor field, or a null cursor
NoNextCursor(c) == c \in {AbsentV, NoneV}

\* C2: an empty first page gives zero payloads and exactly one request; a
\* non-empty page without next-cursor is yielded and no further request is
\* sent after it.
C2_ScrollTerminates ==
    /\ (Len(gPages) = 1 /\ gPages[1] = <<>>)
          => (aPc = "done" /\ gYielded = <<>> /\ Len(gReqs) = 1)
    /\ (Len(gPages) >= 1 /\ gPages[Len(gPages)] # <<>> /\ NoNextCursor(gCursors[Len(gPages)]))
          => /\ Len(gReqs) = Len(gPages)
             /\ aPc \in {"yielding", "done", "failed"}
             /\ (gPage = <<>> /\ aPc # "failed") =>
                    (aPc = "done" /\ Len(gYielded) = Len(Flatten(gPages)))

\* a second page without next-cursor has been yielded and the scroll is over
C2_Witness ==
    /\ aPc = "done"
    /\ Len(gPages) = 2
    /\ Len(gPages[2]) = 2
    /\ gCursors[2] = AbsentV
    /\ Len(gYielded) = 3
    /\ Len(gReqs) = 2

\* the first page was empty
C2_WitnessEmpty == aPc = "done" /\ gPages = <<<<>>>> /\ Len(gReqs) = 1

\* C9: the payloads yielded are the payloads of the records of the pages
\* received, in order, one per record; every page is yielded in full before
\* the next request and before the scroll ends.
C9_YieldedIsConcatenation ==
    LET recs == Flatten(gPages)
    IN /\ Len(gYielded) <= Len(recs)
       /\ \A i \in 1..Len(gYielded) : gYielded[i] = RecordPayload(recs[i])
       /\ Len(gYielded) + Len(gPage) = Len(recs)
       /\ aPc \in {"waiting", "done"} => Len(gYielded) = Len(recs)

\* the store returned the same record on two pages and both were yielded
C9_Witness ==
    /\ aPc = "done"
    /\ Len(gPages) = 3
    /\ gPages[1] = gPages[2]
    /\ Len(gPages[1]) = 1
    /\ gPages[1][1].isdict
    /\ gPages[3] = <<>>
    /\ gYielded = <<RecordPayload(gPages[1][1]), RecordPayload(gPages[1][1])>>

\* C10: the first request of a call carries no offset and every later
\* request carries the next-cursor of the response just before it, also in
\* a call that follows a call which reached a cursor.
C10_OffsetFollowsCursor ==
    /\ Len(gReqs) >= 1 => gReqs[1] = NoneV
    /\ \A i \in 2..Len(gReqs) : gReqs[i] = gCursors[i - 1]
    /\ Len(gReqs) <= Len(gCursors) + 1

\* a call that follows a call which ended at cursor 2 starts without
\* offset and then follows its own cursors
C10_Witness ==
    /\ gEarlier = IntV(2)
    /\ gReqs = <<NoneV, IntV(1), IntV(2)>>

-----------------------------------------------------------------------------
(* Month aggregators: claims                                               *)

\* C3: a call with a month outside 1..12 fails with status 400 and sends
\* no scroll request.
C3_InvalidMonthRejected ==
    (aPc # "idle" /\ ~(aMonth \in 1..12))
    => (aPc = "failed" /\ aOut = Failure(400) /\ gReqs = <<>> /\ gPages = <<>>)

\* aggregate_volume was called with month 13
C3_Witness ==
    aPc = "failed" /\ aKind = "volume" /\ aMonth = 13 /\ aYear = 2024 /\ aOut.status = 400

\* the candidate fields of each aggregator, in order
CandidateFields(kind) ==
    IF kind = "sales" THEN <<"sales", "sales_amount">>
    ELSE <<"sales_vol", "quantity", "sales_volume">>

\* the candidate fields a payload holds
PresentCandidates(kind, y) ==
    {i \in 1..Len(CandidateFields(kind)) : CandidateFields(kind)[i] \in DOMAIN y.m}

\* the value of the first candidate field the payload holds
FirstPresentValue(kind, y) ==
    LET i == CHOOSE j \in PresentCandidates(kind, y) :
                \A k \in PresentCandidates(kind, y) : j <= k
    IN y.m[CandidateFields(kind)[i]]

\* the finite number a payload contributes: its candidate value, commas
\* removed from text, parsed
Contribution(kind, y) ==
    IF PresentCandidates(kind, y) = {} THEN ParseFailed
    ELSE LET v == FirstPresentValue(kind, y)
             f == PyFloat(IF v.t = "str" THEN StrV(RemoveCommas(v.s)) ELSE v)
         IN IF f.ok /\ IsFinite(f.val) THEN f ELSE ParseFailed

RECURSIVE SumContributions(_, _)
SumContributions(kind, ys) ==
    IF ys = <<>> THEN 0
    ELSE (IF Contribution(kind, Head(ys)).ok THEN Contribution(kind, Head(ys)).val.m ELSE 0)
         + SumContributions(kind, Tail(ys))

\* C4: every payload consumed is classified exactly one way: a candidate
\* value that parses to a finite number counts as aggregated and adds to
\* the total, any other payload counts as skipped.
C4_EveryPayloadClassified ==
    (aPc \in {"waiting", "yielding", "done"})
    => /\ aCount = Cardinality({i \in 1..Len(gYielded) : Contribution(aKind, gYielded[i]).ok})
       /\ aBad = Cardinality({i \in 1..Len(gYielded) : ~Contribution(aKind, gYielded[i]).ok})
       /\ aTotal = SumContributions(aKind, gYielded)

\* C4, the page of the example: the values "1,200", "bad" and null give
\* records_aggregated = 1, records_skipped = 2 and total = 1200.0
C4_ExamplePage ==
    (aPc = "done"
        /\ gYielded = << MapV([sales |-> StrV(<<"1", ",", "2", "0", "0">>), sales_vol |-> StrV(<<"1", ",", "2", "0", "0">>)]),
                         MapV([sales |-> StrV(<<"b", "a", "d">>), sales_vol |-> StrV(<<"b", "a", "d">>)]),
                         MapV([sales |-> NoneV, sales_vol |-> NoneV]) >>)
    => aOut = AggregationResult(1, 2, 12000)

-----------------------------------------------------------------------------
(* Intent router: claims                                                   *)

\* the question holds a revenue phrase, a volume phrase
HasRevenueKeyword(q) == IsRevenueAggregation(q)
HasVolumeKeyword(q) == IsVolumeAggregation(q)

\* a valid (year, month) was extracted
DateExtracted == cYear # NoneV /\ cMonth # NoneV /\ cMonth.n \in 1..12

\* C5: RevenueAggregation iff revenue keyword and date; else
\* VolumeAggregation iff volume keyword and date; else Retrieval.
C5_IntentDecision ==
    cPc = "routed" =>
        /\ (cYear = NoneV) = (cMonth = NoneV)
        /\ cIntent = (IF HasRevenueKeyword(cQuestion) /\ DateExtracted THEN "revenue"
                      ELSE IF HasVolumeKeyword(cQuestion) /\ DateExtracted THEN "volume"
                      ELSE "retrieval")
        /\ (~HasRevenueKeyword(cQuestion) /\ ~HasVolumeKeyword(cQuestion)) => cIntent = "retrieval"
        /\ ~DateExtracted => cIntent = "retrieval"
        /\ (HasRevenueKeyword(cQuestion) /\ HasVolumeKeyword(cQuestion) /\ DateExtracted)
              => cIntent = "revenue"

\* "total sales volume 2023-5" holds both kinds of keyword and a date
C5_Witness ==
    /\ cPc = "routed"
    /\ HasRevenueKeyword(cQuestion)
    /\ HasVolumeKeyword(cQuestion)
    /\ cYear = IntV(2023)
    /\ cMonth = IntV(5)
    /\ cIntent = "revenue"

-----------------------------------------------------------------------------
(* Ingestion normalizer: claims                                            *)

\* the property names the schema of a collection declares; none for a
\* collection without a schema
SchemaFields(class) == IF class \in DOMAIN TYPE_MAP THEN DOMAIN TYPE_MAP[class] ELSE {}

\* C6: every key of the record normalize_metadata returns is a field of the
\* collection's schema, and no value of it is null.
C6_OnlySchemaFieldsNoNull ==
    nPc = "done" =>
        /\ DOMAIN nOut \subseteq SchemaFields(nClass)
        /\ \A k \in DOMAIN nOut : nOut[k] # NoneV

\* a record with a null field, a field outside the schema and a schema field
\* was normalized to the schema field alone
C6_Witness ==
    /\ nPc = "done"
    /\ nClass = "sales_vol_staging"
    /\ DOMAIN nDoc = {"extra", "product_name"}
    /\ nDoc["extra"] # NoneV
    /\ DOMAIN nOut = {"product_name"}

\* a finite number, given as a number or as a decimal literal
IsFiniteNumber(v) ==
    \/ v.t = "int"
    \/ v.t = "float" /\ v.k = "fin"
    \/ v.t = "str" /\ ParseFloat(v.s).ok /\ ParseFloat(v.s).val.k = "fin"

\* a value that does not convert to the field's type
FailsToCoerce(type, v) ==
    CASE type = "int" -> ~IsFiniteNumber(v)
      [] type = "number" -> ~(v.t \in {"int", "float"} \/ (v.t = "str" /\ ParseFloat(v.s).ok))
      [] type = "date" ->
            ~ \/ v.t = "date"
              \/ v.t \in {"int", "float"} /\ IsFiniteNumber(v)
                    /\ ExcelSerialToDate(FloatToInt(PyFloat(v).val).val.n).ok
              \/ v.t = "str" /\ ParseIsoDate(v.s).ok
      [] OTHER -> FALSE

\* the fallback the field's type has
TypeFallback(type, v) ==
    CASE type = "int" -> IntV(0)
      [] type = "number" -> FloatV(0)
      [] type = "date" ->
            StrV(<<"1", "9", "7", "0", "-", "0", "1", "-", "0", "1", "T",
                   "0", "0", ":", "0", "0", ":", "0", "0", "Z">>)
      [] OTHER -> StrV(PyStr(v))

\* C7: normalize_metadata raises for no field value: every non-null schema
\* field is in the record returned, a field that does not convert to its
\* type holds the fallback of the type, and the other fields are normalized
\* all the same.
C7_NeverRaisesFallbackPerField ==
    nPc = "done" =>
        /\ ~nRaised
        /\ DOMAIN nOut = {k \in DOMAIN nDoc \cap SchemaFields(nClass) : nDoc[k] # NoneV}
        /\ \A k \in DOMAIN nOut :
              LET type == TYPE_MAP[nClass][k]
              IN IF FailsToCoerce(type, nDoc[k])
                 THEN nOut[k] = TypeFallback(type, nDoc[k])
                 ELSE nOut[k] = Coerce(type, nDoc[k]).val

\* a record whose int field does not convert and whose date field does was
\* normalized: the int field holds 0, the date field its timestamp
C7_Witness ==
    /\ nPc = "done"
    /\ ~nRaised
    /\ nClass = "sales_vol_staging"
    /\ DOMAIN nDoc = {"sales_vol", "month_year"}
    /\ nDoc["sales_vol"] = StrV(<<"a", "b", "c">>)
    /\ nDoc["month_year"] = DateV(2024, 3, 1)
    /\ nOut["sales_vol"] = IntV(0)
    /\ nOut["month_year"] =
          StrV(<<"2", "0", "2", "4", "-", "0", "3", "-", "0", "1", "T",
                 "0", "0", ":", "0", "0", ":", "0", "0", "Z">>)

-----------------------------------------------------------------------------
(* Scroll failures: claims                                                 *)

\* C11: when a scroll request fails at the HTTP level (no response, or an
\* error status), the call ends with an error, the failed request is the
\* last request of the call, and the payloads yielded are exactly those of
\* the pages received before it.
C11_ScrollFailurePropagates ==
    (gFault # NoneV /\ RequestFailed(gFault)) =>
        /\ aPc = "failed"
        /\ aOut.status \in {500, 502}
        /\ Len(gReqs) = Len(gPages) + 1
        /\ gPage = <<>>
        /\ Len(gYielded) = Len(Flatten(gPages))
        /\ \A i \in 1..Len(gYielded) : gYielded[i] = RecordPayload(Flatten(gPages)[i])

\* the second request of a call failed after a page of two records had
\* been yielded
C11_Witness ==
    /\ gFault # NoneV
    /\ RequestFailed(gFault)
    /\ aPc = "failed"
    /\ Len(gPages) = 1
    /\ Len(gYielded) = 2
    /\ Len(gReqs) = 2

\* the store answered the request with an error status
UpstreamHttpFailure(r) == r # TransportFailure /\ r.status \in 400..599

C12_WitnessInternal ==
    /\ aPc = "failed"
    /\ gFault = TransportFailure
    /\ aOut.status = 500

-----------------------------------------------------------------------------
(* Chat handler, retrieve_hits and the request count of the shim: claims   *)

\* C13: a question with an aggregation keyword and an extracted (year,
\* month) goes to the aggregator: scroll requests are sent, the embedding
\* provider and the search endpoints are never contacted, also when the
\* aggregation fails; every other question goes to retrieve_hits and no
\* scroll request is sent.
C13_AggregationOrSearchPath ==
    cPc \in {"routed", "responded"} =>
        IF (HasRevenueKeyword(cQuestion) \/ HasVolumeKeyword(cQuestion)) /\ DateExtracted
        THEN /\ rPc = "idle" /\ rEmbed = "none"
             /\ sPc = "idle" /\ sLog = <<>>
             /\ cPc = "responded" => (aPc \in {"done", "failed"} /\ gReqs # <<>>)
        ELSE /\ aPc = "idle" /\ gReqs = <<>>
             /\ cPc = "responded" => (rPc = "returned" /\ rEmbed # "none")

\* a revenue question was answered after its aggregation failed on the
\* second scroll request; nothing was embedded or searched
C13_Witness ==
    /\ cPc = "responded"
    /\ cIntent = "revenue"
    /\ aPc = "failed"
    /\ Len(gReqs) = 2
    /\ rPc = "idle"
    /\ sLog = <<>>

\* a question without date was answered from a search; no scroll request
C13_WitnessRetrieval ==
    /\ cPc = "responded"
    /\ cIntent = "retrieval"
    /\ HasRevenueKeyword(cQuestion)
    /\ sPc = "returned"
    /\ gReqs = <<>>

\* the embedding provider failed: unreachable, or a response that is no
\* vector
EmbeddingProviderFailed == rEmbed \in {"raises", "noniterable"}

\* C14: retrieve_hits always returns a hit list; it is empty, and no search
\* endpoint was contacted, when the embedding provider failed, and it is
\* empty when both search endpoints failed.
C14_RetrieveNeverRaises ==
    rPc = "returned" =>
        /\ rHits.returned
        /\ EmbeddingProviderFailed => (rHits.hits = <<>> /\ sLog = <<>> /\ sPc = "idle")
        /\ sPc = "raised" => rHits.hits = <<>>
        /\ sPc = "returned" => rHits.hits = sHits.hits

\* both search endpoints failed and retrieve_hits returned the empty list
C14_Witness ==
    /\ rPc = "returned"
    /\ sPc = "raised"
    /\ Len(sResps) = 2
    /\ rHits = Returned(<<>>)

\* the embedding provider failed and retrieve_hits returned the empty list
C14_WitnessEmbedding ==
    /\ rPc = "returned"
    /\ rEmbed = "raises"
    /\ rHits = Returned(<<>>)

\* C15: one call of the shim sends at most two requests: the first to the
\* legacy endpoint, the second, only after the first was answered or
\* failed, to the modern endpoint; after both failed the call has raised
\* and nothing more is sent.
C15_AtMostTwoRequests ==
    /\ Len(sLog) <= 2
    /\ Len(sLog) >= 1 => sLog[1] = "search"
    /\ Len(sLog) = 2 => (sLog[2] = "query" /\ Len(sResps) >= 1)
    /\ Len(sResps) <= Len(sLog)
    /\ Len(sLog) <= Len(sResps) + 1
    /\ sPc = "raised" => (Len(sLog) = 2 /\ Len(sResps) = 2)

\* both endpoints were requested once, both failed, and the call raised
C15_Witness ==
    /\ sPc = "raised"
    /\ sLog = <<"search", "query">>
    /\ Len(sResps) = 2

-----------------------------------------------------------------------------
(* Date extraction: claims                                                 *)

\* the places where each pattern matches the lowered text: (1) a year, a
\* separator and one or two digits; (2) a month name, then a year; (3) a
\* year, then a month name
Pattern1Matches(t) == {i \in 1..Len(t) : t[i].k = "ym"}
Pattern2Matches(t) ==
    {i \in 1..Len(t) - 1 : t[i].k = "word" /\ t[i].w \in DOMAIN MONTH_MAP
                              /\ t[i + 1].k \in {"year", "ym"}}
Pattern3Matches(t) ==
    {i \in 1..Len(t) - 1 : t[i].k = "year" /\ t[i + 1].k = "word"
                              /\ t[i + 1].w \in DOMAIN MONTH_MAP}

\* the date the first matching pattern gives, from its leftmost match:
\* absent when no pattern matches, and when the month matched is no month
FirstMatchDate(q) ==
    LET t == LowerText(q)
        p1 == Pattern1Matches(t)
        p2 == Pattern2Matches(t)
        p3 == Pattern3Matches(t)
        i1 == CHOOSE i \in p1 : \A j \in p1 : i <= j
        i2 == CHOOSE i \in p2 : \A j \in p2 : i <= j
        i3 == CHOOSE i \in p3 : \A j \in p3 : i <= j
    IN IF p1 # {}
       THEN (IF t[i1].m \in 1..12
             THEN [year |-> IntV(t[i1].y), month |-> IntV(t[i1].m)]
             ELSE [year |-> NoneV, month |-> NoneV])
       ELSE IF p2 # {}
       THEN [year |-> IntV(t[i2 + 1].y), month |-> IntV(MONTH_MAP[t[i2].w])]
       ELSE IF p3 # {}
       THEN [year |-> IntV(t[i3].y), month |-> IntV(MONTH_MAP[t[i3 + 1].w])]
       ELSE [year |-> NoneV, month |-> NoneV]

\* C16: the date extracted is the one given by the first of the three
\* patterns that matches the text, and (absent, absent) when none matches.
C16_FirstMatchWins ==
    cPc = "routed" =>
        (cYear = FirstMatchDate(cQuestion).year /\ cMonth = FirstMatchDate(cQuestion).month)

\* C16, where it holds: for a text in which the first pattern does not
\* match with a number that is no month, the first matching pattern gives
\* the date, and a text no pattern matches gives (absent, absent).
C16_FirstMatchWinsValidMonth ==
    (cPc = "routed"
        /\ \A i \in Pattern1Matches(LowerText(cQuestion)) : cQuestion[i].m \in 1..12)
    => (cYear = FirstMatchDate(cQuestion).year /\ cMonth = FirstMatchDate(cQuestion).month)

-----------------------------------------------------------------------------
(* Month boundary helper: claims                                           *)

\* the first instant of a day, written as an RFC3339 timestamp
FirstInstantText(year, month, day) ==
    StrV(IsoDate(DateV(year, month, day))
            \o <<"T", "0", "0", ":", "0", "0", ":", "0", "0", "Z">>)

\* the last second of a day, written as an RFC3339 timestamp
LastSecondText(year, month, day) ==
    StrV(IsoDate(DateV(year, month, day))
            \o <<"T", "2", "3", ":", "5", "9", ":", "5", "9", "Z">>)

\* what the claim says of the range returned for (qYear, qMonth): it
\* starts with the month, ends one second before the following month, and
\* does not end before it starts
RangeAsClaimed ==
    /\ ~qOut.raises
    /\ qOut.start = FirstInstantText(qYear, qMonth, 1)
    /\ qOut.end = LastSecondText(qYear, qMonth, DaysInMonth(qYear, qMonth))
    /\ qOut.endAt.sec = 86399
    /\ qOut.endAt.day + 1 =
          Ordinal(IF qMonth = 12 THEN qYear + 1 ELSE qYear,
                  IF qMonth = 12 THEN 1 ELSE qMonth + 1, 1)
    /\ \/ qOut.startAt.day < qOut.endAt.day
       \/ qOut.startAt.day = qOut.endAt.day /\ qOut.startAt.sec <= qOut.endAt.sec

\* C17: for every year (of the years a timestamp can hold, 1..9999) and
\* every month in 1..12, iso_month_range returns the first instant of the
\* month and the last second before the following month, and start <= end.
C17_MonthRange ==
    (qPc = "done" /\ qYear \in 1..9999 /\ qMonth \in 1..12) => RangeAsClaimed

\* C17, where it holds: every month before December 9999; in particular
\* (2024, 12) ends at 2024-12-31T23:59:59Z and (2024, 2) at
\* 2024-02-29T23:59:59Z.
C17_MonthRangeBeforeLastMonth ==
    (qPc = "done" /\ qYear \in 1..9999 /\ qMonth \in 1..12
        /\ ~(qYear = 9999 /\ qMonth = 12))
    => /\ RangeAsClaimed
       /\ (qYear = 2024 /\ qMonth = 12) =>
              qOut.end = StrV(<<"2", "0", "2", "4", "-", "1", "2", "-", "3", "1", "T",
                                "2", "3", ":", "5", "9", ":", "5", "9", "Z">>)
       /\ (qYear = 2024 /\ qMonth = 2) =>
              qOut.end = StrV(<<"2", "0", "2", "4", "-", "0", "2", "-", "2", "9", "T",
                                "2", "3", ":", "5", "9", ":", "5", "9", "Z">>)

-----------------------------------------------------------------------------
(* Ingestion normalizer: int and date fields, claims                       *)

\* the fields of the record returned whose schema type is `type`
FieldsOfType(type) == {k \in DOMAIN nOut : TYPE_MAP[nClass][k] = type}

\* the value of a finite number, in tenths
Tenths(v) ==
    CASE v.t = "int" -> v.n * 10
      [] v.t = "float" -> v.m
      [] OTHER -> ParseFloat(v.s).val.m

\* the integer part of a number given in tenths
TruncatedTowardZero(m) == IF m >= 0 THEN m \div 10 ELSE -((-m) \div 10)

\* C18: an int field holds the raw value parsed as a (finite) number and
\* truncated toward zero, and 0 when the raw value is not parseable as a
\* number; "2.0" gives 2, "-2.7" gives -2, "abc" gives 0.
C18_IntFieldTruncates ==
    nPc = "done" =>
        \A k \in FieldsOfType("int") :
            /\ IF IsFiniteNumber(nDoc[k])
               THEN nOut[k] = IntV(TruncatedTowardZero(Tenths(nDoc[k])))
               ELSE nOut[k] = IntV(0)
            /\ nDoc[k] = StrV(<<"2", ".", "0">>) => nOut[k] = IntV(2)
            /\ nDoc[k] = StrV(<<"-", "2", ".", "7">>) => nOut[k] = IntV(-2)
            /\ nDoc[k] = StrV(<<"a", "b", "c">>) => nOut[k] = IntV(0)

\* an int field with the text "-2.7" was normalized to -2
C18_Witness ==
    /\ nPc = "done"
    /\ "sales_vol" \in DOMAIN nOut
    /\ nDoc["sales_vol"] = StrV(<<"-", "2", ".", "7">>)
    /\ nOut["sales_vol"] = IntV(-2)

\* the calendar day a timestamp YYYY-MM-DDT00:00:00Z names, as its ordinal
\* (0 when the text is no such timestamp)
MidnightOrdinal(ts) ==
    IF ts.t = "str" /\ Len(ts.s) = 20
          /\ SubSeq(ts.s, 11, 20) = <<"T", "0", "0", ":", "0", "0", ":", "0", "0", "Z">>
          /\ ParseIsoDate(SubSeq(ts.s, 1, 10)).ok
    THEN LET d == ParseIsoDate(SubSeq(ts.s, 1, 10)).val IN Ordinal(d.y, d.mo, d.d)
    ELSE 0

\* a serial day number whose day a timestamp can name (up to 9999-12-31)
IsSerialDay(v) ==
    v.t = "int" /\ v.n >= 0 /\ Ordinal(1899, 12, 30) + v.n <= Ordinal(9999, 12, 31)

\* C19: a date field whose raw value is a serial day number n holds the
\* midnight timestamp of the day n days after 1899-12-30; 1 gives
\* 1899-12-31T00:00:00Z.
C19_SerialDayToTimestamp ==
    nPc = "done" =>
        \A k \in FieldsOfType("date") :
            IsSerialDay(nDoc[k]) =>
                /\ MidnightOrdinal(nOut[k]) = Ordinal(1899, 12, 30) + nDoc[k].n
                /\ nDoc[k] = IntV(1) =>
                      nOut[k] = StrV(<<"1", "8", "9", "9", "-", "1", "2", "-", "3", "1", "T",
                                       "0", "0", ":", "0", "0", ":", "0", "0", "Z">>)

\* a date field with the serial day 45000 was normalized to 2023-03-15
C19_Witness ==
    /\ nPc = "done"
    /\ "month_year" \in DOMAIN nOut
    /\ nDoc["month_year"] = IntV(45000)
    /\ nOut["month_year"] =
          StrV(<<"2", "0", "2", "3", "-", "0", "3", "-", "1", "5", "T",
                 "0", "0", ":", "0", "0", ":", "0", "0", "Z">>)

RECURSIVE OwnPayloads(_)
\* the payloads of the records in the pages a request received, in order
OwnPayloads(resps) ==
    IF resps = <<>> THEN <<>>
    ELSE LET pts == Head(resps).body.points
         IN [i \in 1..Len(pts) |-> YieldOf(pts[i])] \o OwnPayloads(Tail(resps))

\* the result of an aggregation that ran alone on the given responses
AloneResult(kind, resps) ==
    LET ys == OwnPayloads(resps)
    IN AggregationResult(
           Cardinality({i \in 1..Len(ys) : Contribution(kind, ys[i]).ok}),
           Cardinality({i \in 1..Len(ys) : ~Contribution(kind, ys[i]).ok}),
           SumContributions(kind, ys))

\* C20: concurrent aggregation or search requests do not interfere: every
\* request sends null as its first offset and after that the cursor of its
\* own previous response, and the result it returns is the one the
\* responses to its own requests determine, under every interleaving.
C20_ConcurrentRequestsIndependent ==
    \A p \in Procs :
        LET k == kProc[p]
        IN /\ k.kind \in {"sales", "volume"} =>
                /\ \A i \in 1..Len(k.reqs) :
                      k.reqs[i] = IF i = 1 THEN NoneV
                                  ELSE ResponseCursor(k.resps[i - 1].body)
                /\ k.pc = "done" => k.out = AloneResult(k.kind, k.resps)
           /\ k.kind = "search" =>
                /\ \A i \in 1..Len(k.reqs) : k.reqs[i] = Endpoints[i]
                /\ k.pc = "returned" =>
                      k.out = Returned(BuildHits("main", k.resps[Len(k.resps)].body.points))

\* a sales aggregation returned after sending cursor 1 while a volume
\* aggregation that sent cursor 2 is still waiting for its answer, and a
\* record was added to the sum of each
C20_Witness ==
    /\ kProc[1].kind = "sales" /\ kProc[1].pc = "done"
    /\ kProc[1].reqs = <<NoneV, IntV(1)>>
    /\ kProc[1].out.count = 1
    /\ kProc[2].kind = "volume" /\ kProc[2].pc = "waiting"
    /\ kProc[2].reqs = <<NoneV, IntV(2)>>
    /\ kFrame[FrameOf(2)].count = 1
    /\ kFrame[FrameOf(2)].total # kProc[1].out.total

-----------------------------------------------------------------------------
(* Candidate order, cursor values, the legacy endpoint: claims             *)

\* the payload the loop body ran on in this step
ConsumedPayload == gYielded'[Len(gYielded')]

\* C21: the aggregator uses the value of the first candidate field that is
\* present in the payload and consults a later candidate only when every
\* earlier one is absent: a payload whose first candidate is present with
\* the value 0 is aggregated with the value 0.
C21_FirstPresentCandidateUsed ==
    [][ (Len(gYielded') = Len(gYielded) + 1
            /\ ConsumedPayload.t = "map"
            /\ PresentCandidates(aKind, ConsumedPayload) # {})
        => /\ CandidateValue(aKind, ConsumedPayload)
                = FirstPresentValue(aKind, ConsumedPayload)
           /\ FirstPresentValue(aKind, ConsumedPayload) = IntV(0)
                => (aCount' = aCount + 1 /\ aBad' = aBad /\ aTotal' = aTotal) ]_vars

\* the candidate values that Python takes as true
TruthyFirstCandidate(y) ==
    PresentCandidates(aKind, y) # {} /\ Truthy(FirstPresentValue(aKind, y))

\* C21 for payloads whose first present candidate is a true value (not 0,
\* not null, not the empty text): that value is the one used.
C21_FirstTruthyCandidateUsed ==
    [][ (Len(gYielded') = Len(gYielded) + 1
            /\ ConsumedPayload.t = "map"
            /\ TruthyFirstCandidate(ConsumedPayload))
        => CandidateValue(aKind, ConsumedPayload)
                = FirstPresentValue(aKind, ConsumedPayload) ]_vars

\* page i of the call was non-empty and has been yielded in full to a loop
\* that did not fail
PageYielded(i) ==
    /\ i \in 1..Len(gPages)
    /\ gPages[i] # <<>>
    /\ i < Len(gPages) \/ (gPage = <<>> /\ aPc \in {"waiting", "done"})

\* the request after response i was sent and carries the cursor of response i
FurtherRequestSent(i) == Len(gReqs) > i /\ gReqs[i + 1] = gCursors[i]

\* C22: the scroll stops only on an empty page or a missing next-cursor:
\* after a non-empty page with a next-cursor value, whatever the value (0
\* is possible), a further request carrying that cursor is sent.
C22_AnyCursorContinues ==
    \A i \in 1..Len(gPages) :
        (PageYielded(i) /\ ~NoNextCursor(gCursors[i])) => FurtherRequestSent(i)

\* C22 for the cursor values that Python takes as true
C22_TruthyCursorContinues ==
    \A i \in 1..Len(gPages) :
        (PageYielded(i) /\ ~NoNextCursor(gCursors[i]) /\ Truthy(gCursors[i]))
            => FurtherRequestSent(i)

\* the legacy endpoint answered the first request with status 200
LegacyAnsweredOk ==
    /\ sVariant = "main"
    /\ Len(sResps) >= 1
    /\ sResps[1] # TransportFailure
    /\ sResps[1].status = HTTP_OK

\* C23: when the legacy endpoint answers 200, the modern endpoint is never
\* contacted during that call, whatever the body of the response is.
C23_NoFallbackAfterOk ==
    LegacyAnsweredOk => sLog = <<"search">>

\* C23 for a 200 response whose body is a JSON object with a result that
\* can be iterated
C23_NoFallbackAfterReadableOk ==
    (LegacyAnsweredOk /\ ~EnvelopePoints("main", sResps[1].body).raises)
        => (sLog = <<"search">> /\ sPc = "returned")

-----------------------------------------------------------------------------
(* Month aggregators: the counters                                         *)

\* C24: while an aggregation runs, records_aggregated + records_skipped is
\* the number of payloads consumed from the scroll so far; in the result
\* returned the sum is the number of records on all pages received.
C24_CountersCoverPayloads ==
    /\ aPc \in {"waiting", "yielding", "done"} => aCount + aBad = Len(gYielded)
    /\ aPc = "done" =>
          /\ aOut.status = HTTP_OK
          /\ aOut.count + aOut.bad = Len(Flatten(gPages))

\* an aggregation over two pages returned with records of both kinds
C24_Witness ==
    /\ aPc = "done"
    /\ Len(gPages) >= 2
    /\ Len(Flatten(gPages)) = MaxRecords
    /\ aOut.count >= 1
    /\ aOut.bad >= 1
    /\ aOut.count + aOut.bad = MaxRecords

-----------------------------------------------------------------------------
(* Payload repair script: claims                                           *)

\* C30: parse_and_normalize is idempotent: normalizing a normalized payload
\* gives the same payload, so a second repair run finds no changed point.
C30_NormalizeIdempotent ==
    iPc = "twice" => iTwice = iOnce

\* the sales value of the normalized payload is 0.0
NormalizedSalesIsZero == "sales" \in DOMAIN iOnce.m /\ iOnce.m["sales"] = FloatV(0)

\* C30 for the payloads whose normalized sales value is not 0.0
C30_NormalizeIdempotentNonZero ==
    (iPc = "twice" /\ ~NormalizedSalesIsZero) => iTwice = iOnce

\* the points sent in upserts so far, over all batches
SentPoints == Flatten(fSent)

\* C25: a run with a limit L in apply mode stops after applying L changed
\* points: the number of points sent in upserts never exceeds L, for every
\* batch size and every sequence of scrolled points.
C25_LimitBoundsUpserts ==
    (~fDry /\ fLimit.t = "int" /\ fLimit.n >= 1) => Len(SentPoints) <= fLimit.n

\* C25 for the batch size 1: the limit is tested after every changed point
C25_LimitBoundsUpsertsBatchOne ==
    (~fDry /\ fLimit.t = "int" /\ fLimit.n >= 1 /\ fBatch = 1)
        => Len(SentPoints) <= fLimit.n

\* C26: with dry_run true the run never sends an upsert request, for every
\* sequence of scrolled points, batch size and limit.
C26_DryRunSendsNoUpsert ==
    fDry => fSent = <<>>

\* a dry run prepared two batches of one changed point each and ended
C26_Witness ==
    /\ fDry
    /\ fPc = "done"
    /\ fBatch = 1
    /\ fChanged >= 2
    /\ fSkipped = 0
    /\ fToUpsert = <<>>
    /\ fSent = <<>>

\* the payload the store holds for a scrolled point
StoredPayload(raw) == IF raw.payload \in {AbsentV, NoneV} THEN EmptyMap ELSE raw.payload

\* a scrolled point with an id and a vector that the normalization changes
MustBeSent(raw) ==
    /\ raw # NoneV
    /\ raw.id # AbsentV
    /\ raw.vector # AbsentV
    /\ ~PyEqual(ParseAndNormalize(StoredPayload(raw)), StoredPayload(raw))

\* the ids of a sequence of points, in order
IdsOf(points) == [i \in 1..Len(points) |-> points[i].id]

\* the scrolled point with this id was scrolled with its vector
ScrolledWithVector(id) == fScanned[id.n].vector # AbsentV

RetryResponses == SubSeq(uResps, 2, Len(uResps))

\* C28: upsert_points returns without error only if the batch PUT returned
\* a status below 400; in every other case it raises, also when a batch
\* rejected with 400 is retried point by point and every PUT succeeds. In
\* the retry the points are sent in order and the first failing point ends
\* it.
C28_ReturnsOnlyOnBatchSuccess ==
    /\ (uPc = "returned" /\ uPoints # <<>>)
          => (Len(uResps) = 1 /\ uResps[1] # PutFailed /\ uResps[1].status < 400)
    /\ (Len(uResps) >= 1 /\ ~(uResps[1] # PutFailed /\ uResps[1].status < 400))
          => uPc \in {"retry", "raised"}
    /\ Len(uReqs) > 1 => (uResps[1] # PutFailed /\ uResps[1].status = 400)
    /\ \A i \in 2..Len(uReqs) : uReqs[i] = <<uReqs[1][i - 1]>>
    /\ Len(uReqs) <= 1 + Len(uPoints)
    /\ \A i \in 2..Len(uResps) :
          (uResps[i] = PutFailed \/ uResps[i].status >= 400)
              => (uPc = "raised" /\ Len(uResps) = i /\ Len(uReqs) = i)
    /\ (Len(uResps) = 1 + Len(uPoints) /\ Len(uPoints) >= 1) => uPc = "raised"

\* the batch of two points was rejected with 400, both points were then
\* accepted one by one, and the call raised
C28_Witness ==
    /\ uPc = "raised"
    /\ Len(uPoints) = 2
    /\ Len(uReqs) = 3
    /\ uResps = <<[status |-> 400, json |-> TRUE], [status |-> HTTP_OK, json |-> TRUE],
                 [status |-> HTTP_OK, json |-> TRUE]>>

RECURSIVE Sanitized(_)
\* a value without non-finite float and without a value that is not
\* JSON-encodable, at any depth
Sanitized(v) ==
    CASE v.t = "float" -> v.k = "fin"
      [] v.t \in {"str", "int", "bool", "none"} -> TRUE
      [] v.t = "list" -> \A i \in 1..Len(v.l) : Sanitized(v.l[i])
      [] v.t = "map" -> \A k \in DOMAIN v.m : Sanitized(v.m[k])
      [] OTHER -> FALSE

\* every payload sent so far is sanitized
SentPayloadsSanitized ==
    \A i \in 1..Len(uReqs) : \A j \in 1..Len(uReqs[i]) : Sanitized(uReqs[i][j].payload)

\* the point has a payload that is not a dict
NonDictPayload(p) == p.payload.t \notin {"absent", "none", "map"}

\* the point fails the validation the claim names
FailsValidation(p) ==
    p.id \in {AbsentV, NoneV} \/ NonDictPayload(p) \/ p.vector \in {AbsentV, NoneV}

\* C29: every payload upsert_points sends is sanitized (no non-finite
\* float at any depth, no value that is not JSON-encodable), and a point
\* without id, with a payload that is not a dict or without vector makes
\* the call raise before any request is sent.
C29_SanitizedAndValidated ==
    /\ SentPayloadsSanitized
    /\ (uPc # "idle" /\ \E i \in 1..Len(uPoints) : FailsValidation(uPoints[i]))
          => (uPc = "raised" /\ uReqs = <<>>)

\* C29 where a payload that is not a dict is not empty either
C29_SanitizedAndValidatedTruthy ==
    /\ SentPayloadsSanitized
    /\ (uPc # "idle"
          /\ \E i \in 1..Len(uPoints) :
                /\ FailsValidation(uPoints[i])
                /\ NonDictPayload(uPoints[i]) => Truthy(uPoints[i].payload))
          => (uPc = "raised" /\ uReqs = <<>>)

====
